---- MODULE Spec2Model ----
(***************************************************************************)
(* Model of the meristem-tooling benchmark engine:                         *)
(*   - the HTTP load generator of bench/http-benchmark (runSingleRequest,  *)
(*     runWorker, mergeWorkerResults, runHttpBenchmarkTarget);             *)
(*   - the regression gate of commands/benchmark-pack                      *)
(*     (evaluateBenchmarkGate), the decoding of the comparison baseline    *)
(*     (decodeComparisonSource) and the pack run itself                    *)
(*     (runBenchmarkPackCommand);                                          *)
(*   - the pure functions computeLatencyStats,                             *)
(*     summarizeHttpBenchmarkResult, buildThroughputRanking and            *)
(*     evaluateWasmGate, each called once on a bounded input;              *)
(*   - the sample statistics of benchmark-pack (calculateStats) and of    *)
(*     commands/reliability-run (calculateMedian, calculateTrimmedMean,    *)
(*     calculateCoefficientOfVariation), and the rounds of                 *)
(*     runBaselineReport;                                                  *)
(*   - resolveTestArtifactPath of utils/test-artifacts;                    *)
(*   - runFullE2EWithCleanup of e2e/assert with runE2E and cleanupE2E;     *)
(*   - buildUniqueJoinHwid of bench/core-scenario-adapter.                 *)
(* Fractional quantities are carried as scaled integers: configuration     *)
(* numbers in tenths, coefficients of variation in hundredths.  The two    *)
(* coefficient-of-variation functions are computed in a binary floating    *)
(* point of MantissaBits bits, rounded to nearest even, so that the order  *)
(* of a summation is visible in the result.                                *)
(***************************************************************************)
EXTENDS Integers, Sequences, FiniteSets, TLC

\* ------------------------------------------------------------------ bounds
MaxWarmup == 2
MaxRequests == 3
MaxConcurrency == 3
MaxMetrics == 2

Null == "null"

\* ------------------------------------------------------- numeric helpers
Min2(a, b) == IF a <= b THEN a ELSE b
Max2(a, b) == IF a >= b THEN a ELSE b

\* Math.floor of a number given in tenths
FloorTenths(x) == x \div 10

\* clampToNonNegative: value > 0 ? value : 0
clampToNonNegative(value) == IF value > 0 THEN value ELSE 0

\* configuration numbers (tenths) that floor to -1, 0 and 1..max
ConfigInputs(max) == {-10, 5} \cup {10 * k + 5 : k \in 1..max}

RECURSIVE SumSeq(_)
SumSeq(values) == IF values = <<>> THEN 0 ELSE Head(values) + SumSeq(Tail(values))

RECURSIVE insertAscending(_, _)
insertAscending(value, sorted) ==
    IF sorted = <<>> THEN <<value>>
    ELSE IF value < Head(sorted) THEN <<value>> \o sorted
    ELSE <<Head(sorted)>> \o insertAscending(value, Tail(sorted))

\* [...values].sort((left, right) => left - right)
RECURSIVE sortAscending(_)
sortAscending(values) ==
    IF values = <<>> THEN <<>>
    ELSE insertAscending(Head(values), sortAscending(Tail(values)))

\* a quotient num / den kept as the pair, and its comparison with tenths
Ratio(num, den) == [num |-> num, den |-> den]
RatioExceedsTenths(ratio, tenths) == 10 * ratio.num > tenths * ratio.den

\* ------------------------------------------------------------- responses
Statuses == {199, 200, 299, 300, 500}
Bodies == {"successTrue", "successFalse", "noSuccessField", "invalidJson"}
\* content-type headers: absent, text, JSON, JSON in another letter case
ContentTypes == {"", "text/plain", "application/json", "Application/JSON; charset=utf-8"}
\* a fetch that rejects: network error, or abort by the timeout signal
Rejected == [kind |-> "reject", status |-> 0, contentType |-> "", body |-> Null]
Responses ==
    {Rejected}
    \cup [kind : {"response"}, status : Statuses, contentType : ContentTypes,
          body : Bodies]

\* contentType.toLowerCase().includes('application/json')
includesApplicationJson(contentType) ==
    contentType \in {"application/json", "Application/JSON; charset=utf-8"}

\* what the worker pool is fed with: a rejected fetch, a 2xx JSON response and
\* a 5xx text response
PoolResponses ==
    {Rejected,
     [kind |-> "response", status |-> 200, contentType |-> "application/json",
      body |-> "successTrue"],
     [kind |-> "response", status |-> 500, contentType |-> "text/plain",
      body |-> "noSuccessField"]}

Durations == {0, 4}

Classifiers == {"none", "adapter", "declared", "throwing", "throwOnNull"}
PoolClassifiers == {"none", "adapter"}

\* the snapshot of a call in which no classifier was invoked
NoSnapshot == [status |-> -1, body |-> Null]

\* Response.ok of the fetch standard: status in [200, 300)
ResponseOk(status) == status >= 200 /\ status < 300

\* variant: the payload is parsed whatever the content-type says
parseResponseBody_IgnoreContentType(response) ==
    IF response.body = "invalidJson" THEN Null
    ELSE response.body

\* parseResponseBody: null unless content-type contains application/json and
\* the payload parses
parseResponseBody(response) ==
    IF ~includesApplicationJson(response.contentType) THEN Null
    ELSE IF response.body = "invalidJson" THEN Null
    ELSE response.body

\* readResponseSuccess of the core scenario adapter
readResponseSuccess(body) ==
    IF body = "successTrue" THEN "true"
    ELSE IF body = "successFalse" THEN "false"
    ELSE Null

\* the success classifiers a caller may pass; the verdict is "true", "false"
\* or "throw"
Classify(classifier, status, body) ==
    CASE classifier = "adapter" ->
            IF status < 200 \/ status >= 300 THEN "false"
            ELSE IF readResponseSuccess(body) = Null THEN "true"
            ELSE readResponseSuccess(body)
      [] classifier = "declared" ->
            IF body = "successTrue" THEN "true" ELSE "false"
      [] classifier = "throwing" -> "throw"
      [] classifier = "throwOnNull" ->
            IF body = Null THEN "throw" ELSE "true"

\* variant: the catch around the fetch is missing, a rejected fetch propagates
runSingleRequest_NoCatch(classifier, response, durationMs) ==
    IF response.kind = "reject"
    THEN [ok |-> FALSE, durationMs |-> durationMs, classified |-> FALSE,
          snapshot |-> NoSnapshot, threw |-> TRUE]
    ELSE IF classifier = "none"
    THEN [ok |-> ResponseOk(response.status), durationMs |-> durationMs,
          classified |-> FALSE, snapshot |-> NoSnapshot, threw |-> FALSE]
    ELSE LET body == parseResponseBody(response)
             verdict == Classify(classifier, response.status, body)
         IN [ok |-> IF verdict = "throw" THEN FALSE ELSE verdict = "true",
             durationMs |-> durationMs,
             classified |-> TRUE,
             snapshot |-> [status |-> response.status, body |-> body],
             threw |-> FALSE]

\* runSingleRequest after buildRequestInit: the try block around the fetch.
\* snapshot is the argument handed to the classifier (NoSnapshot when it is
\* not called); threw is TRUE when an exception leaves the function.
runSingleRequest(classifier, response, durationMs) ==
    IF response.kind = "reject"
    THEN [ok |-> FALSE, durationMs |-> durationMs, classified |-> FALSE,
          snapshot |-> NoSnapshot, threw |-> FALSE]
    ELSE IF classifier = "none"
    THEN [ok |-> ResponseOk(response.status), durationMs |-> durationMs,
          classified |-> FALSE, snapshot |-> NoSnapshot, threw |-> FALSE]
    ELSE LET body == parseResponseBody(response)
             verdict == Classify(classifier, response.status, body)
         IN [ok |-> IF verdict = "throw" THEN FALSE ELSE verdict = "true",
             durationMs |-> durationMs,
             classified |-> TRUE,
             snapshot |-> [status |-> response.status, body |-> body],
             threw |-> FALSE]

\* ----------------------------------------------------------------- state
VARIABLES
    config,          \* HttpBenchmarkConfig, numbers in tenths
    target,          \* HttpBenchmarkTarget: the indices at which its body factory throws
    classifySuccess, \* the optional success classifier ("none" when absent)
    pc,              \* position of runHttpBenchmarkTarget
    settled,         \* the promise returned by runHttpBenchmarkTarget
    warmupIndex,     \* loop variable of the warmup loop
    warmupInFlight,  \* number of warmup requests awaiting their fetch
    warmupFetched,   \* per request index, warmup fetches issued
    timerStarted,    \* startedAt has been taken
    nextRequest,     \* state.nextRequest
    spawned,         \* workers created so far by Array.from
    workers,         \* per worker: loop position and local buffers
    drawCount,       \* per request index, times it was read from the counter
    fetched,         \* per request index, measured fetches issued
    outcomes,        \* per request index, the outcomes appended for it
    raw,             \* the merged raw result, Null before the merge
    metrics,         \* metrics of the returned result, Null before
    req,             \* one runSingleRequest call with its result
    gate,            \* one evaluateBenchmarkGate call with its result
    pack,            \* one run of runBenchmarkPackCommand
    call             \* one call of another pure function with its result

httpVars == <<config, target, classifySuccess, pc, settled, warmupIndex,
              warmupInFlight, warmupFetched, timerStarted, nextRequest, spawned,
              workers, drawCount, fetched, outcomes, raw, metrics>>
vars == <<config, target, classifySuccess, pc, settled, warmupIndex,
          warmupInFlight, warmupFetched, timerStarted, nextRequest, spawned,
          workers, drawCount, fetched, outcomes, raw, metrics, req, gate, pack, call>>

IndexRange == 0..(MaxRequests + MaxConcurrency + MaxWarmup)
Workers == 1..MaxConcurrency

\* lines 328-330 of runHttpBenchmarkTarget
warmupRequests == Max2(0, FloorTenths(config.warmupRequests))
requests == Max2(1, FloorTenths(config.requests))
concurrency == Max2(1, FloorTenths(config.concurrency))

Bump(f, i) == IF i \in DOMAIN f THEN [f EXCEPT ![i] = @ + 1] ELSE f

\* buildRequestInit runs before the try block of runSingleRequest: a body
\* factory (or JSON.stringify) that throws makes runSingleRequest reject
buildRequestInitThrows(requestIndex) == requestIndex \in target.bodyThrowsAt

NewWorker ==
    [status |-> "unspawned", requestIndex |-> -1, drew |-> {},
     latencies |-> <<>>, successCount |-> 0, failureCount |-> 0]

IdleRequest ==
    [phase |-> "idle", classifier |-> "none", response |-> Null,
     durationMs |-> 0, result |-> Null]
IdleGate ==
    [phase |-> "idle", metrics |-> <<>>, compared |-> FALSE, policy |-> Null,
     result |-> Null]
IdlePack == [pc |-> "idle"]
IdleCall == [phase |-> "idle", fn |-> "none", input |-> Null, result |-> Null]

HttpInit ==
    /\ config \in [warmupRequests : ConfigInputs(MaxWarmup),
                   requests : ConfigInputs(MaxRequests),
                   concurrency : ConfigInputs(MaxConcurrency)]
    /\ target \in [bodyThrowsAt : {{}, {0}, {1}}]
    /\ classifySuccess \in PoolClassifiers
    /\ pc = "warmup"
    /\ settled = "pending"
    /\ warmupIndex = 0
    /\ warmupInFlight = 0
    /\ warmupFetched = [i \in IndexRange |-> 0]
    /\ timerStarted = FALSE
    /\ nextRequest = 0
    /\ spawned = 0
    /\ workers = [w \in Workers |-> NewWorker]
    /\ drawCount = [i \in IndexRange |-> 0]
    /\ fetched = [i \in IndexRange |-> 0]
    /\ outcomes = [i \in IndexRange |-> <<>>]
    /\ raw = Null
    /\ metrics = Null

Init ==
    /\ HttpInit
    /\ req = IdleRequest
    /\ gate = IdleGate
    /\ pack = IdlePack
    /\ call = IdleCall

\* ---------------------------------------------------------- warmup phase
\* variant: the warmup request is not awaited before the next one is issued
WarmupIssue_NotAwaited ==
    /\ pc = "warmup"
    /\ warmupIndex < warmupRequests
    /\ warmupInFlight < 3
    /\ IF buildRequestInitThrows(warmupIndex)
       THEN /\ pc' = "aborted"
            /\ settled' = "rejected"
            /\ UNCHANGED <<warmupInFlight, warmupFetched>>
       ELSE /\ warmupInFlight' = warmupInFlight + 1
            /\ warmupFetched' = Bump(warmupFetched, warmupIndex)
            /\ UNCHANGED <<pc, settled>>
    /\ UNCHANGED <<config, target, classifySuccess, warmupIndex, timerStarted,
                   nextRequest, spawned, workers, drawCount, fetched, outcomes,
                   raw, metrics, req, gate, pack, call>>

\* for (index < warmupRequests): the synchronous head of runSingleRequest
WarmupIssue ==
    /\ pc = "warmup"
    /\ warmupInFlight = 0
    /\ warmupIndex < warmupRequests
    /\ IF buildRequestInitThrows(warmupIndex)
       THEN /\ pc' = "aborted"
            /\ settled' = "rejected"
            /\ UNCHANGED <<warmupInFlight, warmupFetched>>
       ELSE /\ warmupInFlight' = warmupInFlight + 1
            /\ warmupFetched' = Bump(warmupFetched, warmupIndex)
            /\ UNCHANGED <<pc, settled>>
    /\ UNCHANGED <<config, target, classifySuccess, warmupIndex, timerStarted,
                   nextRequest, spawned, workers, drawCount, fetched, outcomes,
                   raw, metrics, req, gate, pack, call>>

\* the awaited warmup request settles; its result is dropped, whatever the
\* response was
WarmupComplete ==
    /\ pc = "warmup"
    /\ warmupInFlight > 0
    /\ warmupInFlight' = warmupInFlight - 1
    /\ warmupIndex' = warmupIndex + 1
    /\ UNCHANGED <<config, target, classifySuccess, pc, settled, warmupFetched,
                   timerStarted, nextRequest, spawned, workers, drawCount,
                   fetched, outcomes, raw, metrics, req, gate, pack, call>>

\* lines 337-341: the shared counter and startedAt
StartTimed ==
    /\ pc = "warmup"
    /\ warmupInFlight = 0
    /\ warmupIndex >= warmupRequests
    /\ nextRequest' = 0
    /\ timerStarted' = TRUE
    /\ pc' = "spawn"
    /\ UNCHANGED <<config, target, classifySuccess, settled, warmupIndex,
                   warmupInFlight, warmupFetched, spawned, workers, drawCount,
                   fetched, outcomes, raw, metrics, req, gate, pack, call>>

\* -------------------------------------------------------- measured phase
\* variant: the loop test admits the index equal to the budget
WorkerLoop_OffByOne(wk, counter) ==
    IF counter <= requests
    THEN [worker |-> [wk EXCEPT !.requestIndex = counter,
                                !.drew = @ \cup {counter},
                                !.status = IF buildRequestInitThrows(counter)
                                           THEN "failed" ELSE "awaiting"],
          counter |-> counter + 1,
          drawn |-> counter,
          fetch |-> ~buildRequestInitThrows(counter)]
    ELSE [worker |-> [wk EXCEPT !.status = "done", !.requestIndex = -1],
          counter |-> counter,
          drawn |-> -1,
          fetch |-> FALSE]

\* one pass through the head of runWorker's while loop, entered with the
\* local buffers wk: test the counter, read it, advance it, and run the
\* synchronous head of runSingleRequest.  No await separates the read from
\* the increment.
WorkerLoop(wk, counter) ==
    IF counter < requests
    THEN [worker |-> [wk EXCEPT !.requestIndex = counter,
                                !.drew = @ \cup {counter},
                                !.status = IF buildRequestInitThrows(counter)
                                           THEN "failed" ELSE "awaiting"],
          counter |-> counter + 1,
          drawn |-> counter,
          fetch |-> ~buildRequestInitThrows(counter)]
    ELSE [worker |-> [wk EXCEPT !.status = "done", !.requestIndex = -1],
          counter |-> counter,
          drawn |-> -1,
          fetch |-> FALSE]

\* the part of a worker step shared by its creation and its resumption
WorkerAdvance(w, wk) ==
    LET step == WorkerLoop(wk, nextRequest)
    IN /\ workers' = [workers EXCEPT ![w] = step.worker]
       /\ nextRequest' = step.counter
       /\ drawCount' = IF step.drawn >= 0 THEN Bump(drawCount, step.drawn) ELSE drawCount
       /\ fetched' = IF step.fetch THEN Bump(fetched, step.drawn) ELSE fetched

\* Array.from({ length: concurrency }, () => runWorker(...)): the workers are
\* created one after the other in the same synchronous block, each running up
\* to its first await; the block ends in the call of Promise.all
Spawn(w) ==
    /\ pc = "spawn"
    /\ w = spawned + 1
    /\ w <= concurrency
    /\ WorkerAdvance(w, [NewWorker EXCEPT !.status = "running"])
    /\ spawned' = w
    /\ pc' = IF w = concurrency THEN "measured" ELSE "spawn"
    /\ UNCHANGED <<config, target, classifySuccess, settled, warmupIndex,
                   warmupInFlight, warmupFetched, timerStarted, outcomes, raw,
                   metrics, req, gate, pack, call>>

\* the fetch awaited by worker w settles: lines 279-285, then the loop head
Complete(w) ==
    /\ pc = "measured"
    /\ w <= concurrency
    /\ workers[w].status = "awaiting"
    /\ \E response \in PoolResponses, durationMs \in Durations :
          LET result == runSingleRequest(classifySuccess, response, durationMs)
              wk == workers[w]
              pushed == [wk EXCEPT
                           !.latencies = Append(@, clampToNonNegative(result.durationMs)),
                           !.successCount = IF result.ok THEN @ + 1 ELSE @,
                           !.failureCount = IF result.ok THEN @ ELSE @ + 1]
          IN IF result.threw
             THEN \* an exception leaving the await ends runWorker
                  /\ workers' = [workers EXCEPT ![w].status = "failed"]
                  /\ UNCHANGED <<outcomes, nextRequest, drawCount, fetched>>
             ELSE /\ outcomes' = [outcomes EXCEPT ![wk.requestIndex] =
                                      Append(@, [ok |-> result.ok,
                                                 rejected |-> response.kind = "reject"])]
                  /\ WorkerAdvance(w, pushed)
    /\ UNCHANGED <<config, target, classifySuccess, pc, settled, warmupIndex,
                   warmupInFlight, warmupFetched, timerStarted, spawned, raw,
                   metrics, req, gate, pack, call>>

\* variant: the failure counts of the workers are not added up
RECURSIVE mergeWorkerResults_DropFailures(_)
mergeWorkerResults_DropFailures(items) ==
    IF items = <<>>
    THEN [latenciesMs |-> <<>>, successCount |-> 0, failureCount |-> 0]
    ELSE LET rest == mergeWorkerResults_DropFailures(Tail(items))
             item == Head(items)
         IN [latenciesMs |-> item.latencies \o rest.latenciesMs,
             successCount |-> item.successCount + rest.successCount,
             failureCount |-> item.failureCount]

\* mergeWorkerResults: concatenation in worker order
RECURSIVE mergeWorkerResults(_)
mergeWorkerResults(items) ==
    IF items = <<>>
    THEN [latenciesMs |-> <<>>, successCount |-> 0, failureCount |-> 0]
    ELSE LET rest == mergeWorkerResults(Tail(items))
             item == Head(items)
         IN [latenciesMs |-> item.latencies \o rest.latenciesMs,
             successCount |-> item.successCount + rest.successCount,
             failureCount |-> item.failureCount + rest.failureCount]

\* variant: the rank is taken over length - 1 and a rank between two
\* samples gives a value between them, rounded down
percentile_Interpolated(sorted, percent) ==
    IF Len(sorted) = 0 THEN 0
    ELSE LET rank == percent * (Len(sorted) - 1)
             low == rank \div 100
             high == (rank + 99) \div 100
         IN sorted[low + 1]
                + ((sorted[high + 1] - sorted[low + 1]) * (rank - 100 * low)) \div 100

\* the ratios 0.5, 0.95 and 0.99 in percent; Math.ceil(length * ratio) is
\* the least integer not below length * percent / 100
percentile(sorted, percent) ==
    IF Len(sorted) = 0 THEN 0
    ELSE LET ceil == (Len(sorted) * percent + 99) \div 100
             index == Min2(Len(sorted) - 1, Max2(0, ceil - 1))
         IN sorted[index + 1]

ZeroLatencyStats ==
    [min |-> 0, max |-> 0, avg |-> Ratio(0, 1), p50 |-> 0, p95 |-> 0, p99 |-> 0]

\* variant: the samples are taken in the order given
computeLatencyStats_NoSort(samples) ==
    IF Len(samples) = 0 THEN ZeroLatencyStats
    ELSE LET sorted == samples
             total == SumSeq(sorted)
         IN [min |-> sorted[1],
             max |-> sorted[Len(sorted)],
             avg |-> Ratio(total, Len(sorted)),
             p50 |-> percentile(sorted, 50),
             p95 |-> percentile(sorted, 95),
             p99 |-> percentile(sorted, 99)]

computeLatencyStats(samples) ==
    IF Len(samples) = 0 THEN ZeroLatencyStats
    ELSE LET sorted == sortAscending(samples)
             total == SumSeq(sorted)
         IN [min |-> sorted[1],
             max |-> sorted[Len(sorted)],
             avg |-> Ratio(total, Len(sorted)),
             p50 |-> percentile(sorted, 50),
             p95 |-> percentile(sorted, 95),
             p99 |-> percentile(sorted, 99)]

\* variant: the error rate is taken over the successful requests
summarizeHttpBenchmarkResult_FailuresPerSuccess(rawResult) ==
    LET requestCount == rawResult.successCount + rawResult.failureCount
        idle == rawResult.totalDurationMs <= 0
    IN [requests |-> requestCount,
        success |-> rawResult.successCount,
        failures |-> rawResult.failureCount,
        errorRate |-> IF rawResult.successCount = 0 THEN Ratio(0, 1)
                      ELSE Ratio(rawResult.failureCount, rawResult.successCount),
        throughputRps |-> IF idle THEN Ratio(0, 1)
                          ELSE Ratio(requestCount * 1000, rawResult.totalDurationMs),
        successThroughputRps |->
            IF idle THEN Ratio(0, 1)
            ELSE Ratio(rawResult.successCount * 1000, rawResult.totalDurationMs),
        latency |-> computeLatencyStats(rawResult.latenciesMs)]

\* the metrics of summarizeHttpBenchmarkResult; x / (totalDurationMs / 1000)
\* is kept as the pair 1000 * x, totalDurationMs
summarizeHttpBenchmarkResult(rawResult) ==
    LET requestCount == rawResult.successCount + rawResult.failureCount
        idle == rawResult.totalDurationMs <= 0
    IN [requests |-> requestCount,
        success |-> rawResult.successCount,
        failures |-> rawResult.failureCount,
        errorRate |-> IF requestCount = 0 THEN Ratio(0, 1)
                      ELSE Ratio(rawResult.failureCount, requestCount),
        throughputRps |-> IF idle THEN Ratio(0, 1)
                          ELSE Ratio(requestCount * 1000, rawResult.totalDurationMs),
        successThroughputRps |->
            IF idle THEN Ratio(0, 1)
            ELSE Ratio(rawResult.successCount * 1000, rawResult.totalDurationMs),
        latency |-> computeLatencyStats(rawResult.latenciesMs)]

\* performance.now() - startedAt of line 347, in milliseconds; the
\* non-positive durations are inputs of SpecSummarize
TotalDurations == {8}

\* Promise.all rejects as soon as one worker promise is rejected
JoinReject ==
    /\ pc = "measured"
    /\ settled = "pending"
    /\ \E w \in 1..concurrency : workers[w].status = "failed"
    /\ settled' = "rejected"
    /\ UNCHANGED <<config, target, classifySuccess, pc, warmupIndex,
                   warmupInFlight, warmupFetched, timerStarted, nextRequest,
                   spawned, workers, drawCount, fetched, outcomes, raw, metrics,
                   req, gate, pack, call>>

\* Promise.all resolves once every worker promise is fulfilled: lines 346-353
JoinReturn ==
    /\ pc = "measured"
    /\ settled = "pending"
    /\ \A w \in 1..concurrency : workers[w].status = "done"
    /\ \E totalDurationMs \in TotalDurations :
          LET merged == mergeWorkerResults([w \in 1..concurrency |-> workers[w]])
          IN raw' = [latenciesMs |-> merged.latenciesMs,
                     successCount |-> merged.successCount,
                     failureCount |-> merged.failureCount,
                     totalDurationMs |-> totalDurationMs]
    /\ metrics' = summarizeHttpBenchmarkResult(raw')
    /\ settled' = "returned"
    /\ UNCHANGED <<config, target, classifySuccess, pc, warmupIndex,
                   warmupInFlight, warmupFetched, timerStarted, nextRequest,
                   spawned, workers, drawCount, fetched, outcomes, req, gate, pack, call>>

Next ==
    \/ WarmupIssue
    \/ WarmupComplete
    \/ StartTimed
    \/ \E w \in Workers : Spawn(w)
    \/ \E w \in Workers : Complete(w)
    \/ JoinReject
    \/ JoinReturn

Spec == Init /\ [][Next]_vars

\* ------------------------------------------------ properties of the pool
AllWorkersDone ==
    /\ pc = "measured"
    /\ \A w \in 1..concurrency : workers[w].status = "done"

Awaiting(i) == {w \in Workers : workers[w].status = "awaiting" /\ workers[w].requestIndex = i}

OkIndices == {i \in IndexRange : Len(outcomes[i]) > 0 /\ outcomes[i][1].ok}
FailIndices == {i \in IndexRange : Len(outcomes[i]) > 0 /\ ~outcomes[i][1].ok}

\* C1: every index of the budget is drawn by exactly one worker exactly once,
\* the drawn indices are always the gap-free prefix 0..nextRequest-1, no index
\* at or beyond the budget is drawn or executed, a drawn index is executed
\* unless building its request threw, and when every worker has left its loop
\* exactly R requests were executed, one per index of [0, R).
C1_EachIndexDrawnOnce ==
    /\ \A i \in IndexRange :
          /\ drawCount[i] <= 1
          /\ fetched[i] = IF drawCount[i] = 1 /\ ~buildRequestInitThrows(i) THEN 1 ELSE 0
          /\ Len(outcomes[i]) <= fetched[i]
          /\ drawCount[i] = Cardinality({w \in Workers : i \in workers[w].drew})
          /\ (drawCount[i] = 1) <=> (i < nextRequest)
          /\ (i >= Max2(1, config.requests \div 10)) => drawCount[i] = 0
    /\ AllWorkersDone =>
          /\ nextRequest = Max2(1, config.requests \div 10)
          /\ \A i \in 0..(Max2(1, config.requests \div 10) - 1) :
                drawCount[i] = 1 /\ fetched[i] = 1 /\ Len(outcomes[i]) = 1

C1_Witness ==
    /\ AllWorkersDone
    /\ requests = 3
    /\ concurrency = 2
    /\ workers[1].drew # {}
    /\ workers[2].drew # {}
    /\ Cardinality(workers[1].drew \cup workers[2].drew) = 3

\* C2: when the run returns, the merged raw result has as many latencies as
\* successes plus failures, that number is the request budget R, the counts
\* are those of the recorded outcomes, and metrics.requests is R.
C2_MergedCountsEqualBudget ==
    settled = "returned" =>
        /\ Len(raw.latenciesMs) = raw.successCount + raw.failureCount
        /\ Len(raw.latenciesMs) = Max2(1, config.requests \div 10)
        /\ raw.successCount = Cardinality(OkIndices)
        /\ raw.failureCount = Cardinality(FailIndices)
        /\ metrics.requests = Max2(1, config.requests \div 10)

C2_Witness ==
    /\ settled = "returned"
    /\ raw.successCount > 0
    /\ raw.failureCount > 1
    /\ workers[1].failureCount > 0
    /\ workers[2].failureCount > 0

\* C3: the call settles only after every worker has left its loop: once the
\* promise is settled no worker awaits a request.
C3_SettlesAfterAllWorkersExit ==
    settled # "pending" =>
        \A w \in Workers : workers[w].status # "awaiting"

\* C4: a request whose fetch rejects is recorded as exactly one failed outcome
\* of its index, is never issued again, does not end its worker or the run
\* (only a throwing body factory does), and the rest of the budget is executed.
C4_RejectedFetchIsOneFailure ==
    /\ \A i \in IndexRange :
          /\ fetched[i] = Len(outcomes[i]) + Cardinality(Awaiting(i))
          /\ \A k \in 1..Len(outcomes[i]) :
                outcomes[i][k].rejected =>
                    /\ ~outcomes[i][k].ok
                    /\ Len(outcomes[i]) = 1
                    /\ fetched[i] = 1
    /\ \A w \in Workers :
          /\ workers[w].status = "failed" =>
                buildRequestInitThrows(workers[w].requestIndex)
          /\ workers[w].failureCount =
                Cardinality(workers[w].drew \cap FailIndices)
    /\ settled = "rejected" =>
          \/ pc = "aborted"
          \/ \E w \in Workers : /\ workers[w].status = "failed"
                                /\ buildRequestInitThrows(workers[w].requestIndex)
    /\ (/\ pc = "measured"
        /\ \E w \in Workers : workers[w].status = "done"
        /\ \A i \in IndexRange : Awaiting(i) = {}) =>
          \A i \in 0..(requests - 1) :
             ~buildRequestInitThrows(i) => Len(outcomes[i]) = 1

C4_Witness ==
    /\ settled = "returned"
    /\ requests = 3
    /\ outcomes[0][1].rejected
    /\ ~outcomes[1][1].rejected
    /\ outcomes[2][1].ok

\* C6: warmup requests run one at a time, exactly max(0, floor(warmupRequests))
\* of them have completed before the timer starts and before the first
\* measured request, and they count neither as success or failure nor as a
\* latency of the result.
C6_WarmupSequentialAndDiscarded ==
    /\ warmupInFlight <= 1
    /\ \A i \in IndexRange :
          /\ warmupFetched[i] <= 1
          /\ (i >= Max2(0, config.warmupRequests \div 10)) => warmupFetched[i] = 0
          /\ (i < warmupIndex) => warmupFetched[i] = 1
    /\ (timerStarted \/ \E i \in IndexRange : drawCount[i] > 0) =>
          /\ timerStarted
          /\ warmupInFlight = 0
          /\ \A i \in 0..(Max2(0, config.warmupRequests \div 10) - 1) :
                warmupFetched[i] = 1
          /\ warmupIndex = Max2(0, config.warmupRequests \div 10)
    /\ \A w \in Workers :
          Len(workers[w].latencies) = workers[w].successCount + workers[w].failureCount
    /\ settled = "returned" =>
          /\ raw.successCount = Cardinality(OkIndices)
          /\ raw.failureCount = Cardinality(FailIndices)
          /\ Len(raw.latenciesMs) = Cardinality(OkIndices) + Cardinality(FailIndices)

C6_Witness ==
    /\ settled = "returned"
    /\ warmupRequests = 2
    /\ warmupFetched[0] = 1
    /\ warmupFetched[1] = 1
    /\ Len(raw.latenciesMs) = requests

\* ------------------------------------------- one call of runSingleRequest
\* the pool at rest, for the specifications of the pure functions
HttpIdle ==
    /\ config = [warmupRequests |-> 5, requests |-> 15, concurrency |-> 15]
    /\ target = [bodyThrowsAt |-> {}]
    /\ classifySuccess = "none"
    /\ pc = "idle"
    /\ settled = "pending"
    /\ warmupIndex = 0
    /\ warmupInFlight = 0
    /\ warmupFetched = [i \in IndexRange |-> 0]
    /\ timerStarted = FALSE
    /\ nextRequest = 0
    /\ spawned = 0
    /\ workers = [w \in Workers |-> NewWorker]
    /\ drawCount = [i \in IndexRange |-> 0]
    /\ fetched = [i \in IndexRange |-> 0]
    /\ outcomes = [i \in IndexRange |-> <<>>]
    /\ raw = Null
    /\ metrics = Null

InitRequest ==
    /\ HttpIdle
    /\ gate = IdleGate
    /\ pack = IdlePack
    /\ call = IdleCall
    /\ req \in [phase : {"call"}, classifier : Classifiers, response : Responses,
                durationMs : Durations, result : {Null}]

\* the fetch of the request settles with req.response
SingleRequestSettles ==
    /\ req.phase = "call"
    /\ req' = [req EXCEPT
                 !.phase = "returned",
                 !.result = runSingleRequest(req.classifier, req.response, req.durationMs)]
    /\ UNCHANGED <<httpVars, gate, pack, call>>

NextRequest == SingleRequestSettles

SpecRequest == InitRequest /\ [][NextRequest]_vars

\* C5: with a classifier, ok is the classifier's verdict on {status, body},
\* where body is null unless the content-type is JSON (and the payload
\* parses), and a throwing classifier gives ok = false without propagating;
\* without a classifier ok holds exactly for a status in [200, 300).
C5_OkIsClassifierVerdict ==
    (req.phase = "returned" /\ req.response.kind = "response") =>
        LET resp == req.response
            result == req.result
            json == resp.contentType \in {"application/json",
                                          "Application/JSON; charset=utf-8"}
            body == IF json /\ resp.body # "invalidJson" THEN resp.body ELSE Null
            verdict == Classify(req.classifier, resp.status, body)
        IN /\ ~result.threw
           /\ req.classifier = "none" =>
                 /\ ~result.classified
                 /\ result.ok <=> (resp.status >= 200 /\ resp.status < 300)
           /\ req.classifier # "none" =>
                 /\ result.classified
                 /\ result.snapshot = [status |-> resp.status, body |-> body]
                 /\ ~json => result.snapshot.body = Null
                 /\ result.ok <=> (verdict = "true")
                 /\ verdict = "throw" => ~result.ok

C5_Witness ==
    /\ req.phase = "returned"
    /\ req.classifier = "throwOnNull"
    /\ req.response.kind = "response"
    /\ req.response.status = 200
    /\ req.response.contentType = "text/plain"
    /\ req.response.body = "successTrue"
    /\ ~req.result.ok

\* ------------------------------------------------- evaluateBenchmarkGate
\* number | null: NoNumber is null, Some(v) the number v
NoNumber == <<>>
Some(v) == <<v>>

MetricNames == {"json-stringify-parse", "uint8array-copy"}
\* coefficients of variation, in hundredths
CvValues == {35, 50}
\* median deltas, in percent
DeltaValues == {NoNumber, Some(-25), Some(-20), Some(0), Some(8)}

GateMetrics ==
    [name : MetricNames, coefficientOfVariation : CvValues, medianDeltaPct : DeltaValues]
GatePolicies ==
    [maxCv : {35, 50}, maxMedianRegressionPct : {0, 20}, requireComparison : BOOLEAN]
MetricLists == UNION {[1..n -> GateMetrics] : n \in 0..MaxMetrics}

\* variant: the wildcard violation is raised whenever no comparison was made
wildcardViolation_IgnorePolicy(compared, policy) ==
    IF ~compared
    THEN <<[metric |-> "*", rule |-> "missing-comparison",
            actual |-> NoNumber, threshold |-> NoNumber]>>
    ELSE <<>>

\* lines 771-779
wildcardViolation(compared, policy) ==
    IF ~compared /\ policy.requireComparison
    THEN <<[metric |-> "*", rule |-> "missing-comparison",
            actual |-> NoNumber, threshold |-> NoNumber]>>
    ELSE <<>>

\* variant: a coefficient of variation equal to the threshold is a violation
cvViolation_AtThreshold(metric, policy) ==
    IF metric.coefficientOfVariation >= policy.maxCv
    THEN <<[metric |-> metric.name, rule |-> "cv",
            actual |-> Some(metric.coefficientOfVariation),
            threshold |-> Some(policy.maxCv)]>>
    ELSE <<>>

\* lines 782-790
cvViolation(metric, policy) ==
    IF metric.coefficientOfVariation > policy.maxCv
    THEN <<[metric |-> metric.name, rule |-> "cv",
            actual |-> Some(metric.coefficientOfVariation),
            threshold |-> Some(policy.maxCv)]>>
    ELSE <<>>

\* variant: a metric without comparison is passed over silently
comparisonViolation_NullSkipped(metric, compared, policy) ==
    IF ~compared THEN <<>>
    ELSE IF metric.medianDeltaPct = NoNumber THEN <<>>
    ELSE LET regressionLimit == 0 - policy.maxMedianRegressionPct
         IN IF metric.medianDeltaPct[1] < regressionLimit
            THEN <<[metric |-> metric.name, rule |-> "median-regression",
                    actual |-> metric.medianDeltaPct,
                    threshold |-> Some(regressionLimit)]>>
            ELSE <<>>

\* variant: a delta equal to the regression limit is a violation
comparisonViolation_AtLimit(metric, compared, policy) ==
    IF ~compared THEN <<>>
    ELSE IF metric.medianDeltaPct = NoNumber
    THEN <<[metric |-> metric.name, rule |-> "missing-comparison",
            actual |-> NoNumber, threshold |-> NoNumber]>>
    ELSE LET regressionLimit == 0 - policy.maxMedianRegressionPct
         IN IF metric.medianDeltaPct[1] <= regressionLimit
            THEN <<[metric |-> metric.name, rule |-> "median-regression",
                    actual |-> metric.medianDeltaPct,
                    threshold |-> Some(regressionLimit)]>>
            ELSE <<>>

\* lines 792-816
comparisonViolation(metric, compared, policy) ==
    IF ~compared THEN <<>>
    ELSE IF metric.medianDeltaPct = NoNumber
    THEN <<[metric |-> metric.name, rule |-> "missing-comparison",
            actual |-> NoNumber, threshold |-> NoNumber]>>
    ELSE LET regressionLimit == 0 - policy.maxMedianRegressionPct
         IN IF metric.medianDeltaPct[1] < regressionLimit
            THEN <<[metric |-> metric.name, rule |-> "median-regression",
                    actual |-> metric.medianDeltaPct,
                    threshold |-> Some(regressionLimit)]>>
            ELSE <<>>

\* the for loop of lines 781-817
RECURSIVE metricViolations(_, _, _)
metricViolations(metricList, compared, policy) ==
    IF metricList = <<>> THEN <<>>
    ELSE cvViolation(Head(metricList), policy)
         \o comparisonViolation(Head(metricList), compared, policy)
         \o metricViolations(Tail(metricList), compared, policy)

\* variant: a missing comparison alone does not fail the gate
evaluateBenchmarkGate_LenientPassed(metricList, compared, policy) ==
    LET violations == wildcardViolation(compared, policy)
                      \o metricViolations(metricList, compared, policy)
    IN [passed |-> \A k \in 1..Len(violations) :
                       violations[k].rule = "missing-comparison",
        compared |-> compared,
        policy |-> policy,
        violations |-> violations]

evaluateBenchmarkGate(metricList, compared, policy) ==
    LET violations == wildcardViolation(compared, policy)
                      \o metricViolations(metricList, compared, policy)
    IN [passed |-> Len(violations) = 0,
        compared |-> compared,
        policy |-> policy,
        violations |-> violations]

InitGate ==
    /\ HttpIdle
    /\ req = IdleRequest
    /\ pack = IdlePack
    /\ call = IdleCall
    /\ gate \in [phase : {"call"}, metrics : MetricLists, compared : BOOLEAN,
                 policy : GatePolicies, result : {Null}]

EvaluateGate ==
    /\ gate.phase = "call"
    /\ gate' = [gate EXCEPT
                  !.phase = "returned",
                  !.result = evaluateBenchmarkGate(gate.metrics, gate.compared, gate.policy)]
    /\ UNCHANGED <<httpVars, req, pack, call>>

NextGate == EvaluateGate

SpecGate == InitGate /\ [][NextGate]_vars

\* positions of the violations / of the input metrics with a given property
ViolationsOf(rule, name) ==
    {k \in 1..Len(gate.result.violations) :
        /\ gate.result.violations[k].rule = rule
        /\ gate.result.violations[k].metric = name}
MetricsNamed(name) == {k \in 1..Len(gate.metrics) : gate.metrics[k].name = name}

\* C7: passed is true exactly when the violations list is empty, and the
\* result echoes the compared flag and the policy of the call.
C7_PassedIffNoViolations ==
    gate.phase = "returned" =>
        /\ gate.result.passed <=> (gate.result.violations = <<>>)
        /\ gate.result.compared = gate.compared
        /\ gate.result.policy = gate.policy

C7_Witness ==
    /\ gate.phase = "returned"
    /\ ~gate.compared
    /\ gate.policy.requireComparison
    /\ Len(gate.metrics) = 2
    /\ Len(gate.result.violations) = 1
    /\ ~gate.result.passed

\* C8: every metric whose CV is strictly above policy.maxCv gets exactly one
\* cv violation with actual = CV and threshold = maxCv, a metric with
\* CV <= maxCv gets none, whatever compared and the metric's delta are.
C8_CvViolationPerUnstableMetric ==
    gate.phase = "returned" =>
        /\ \A name \in MetricNames :
              Cardinality(ViolationsOf("cv", name)) =
              Cardinality({k \in MetricsNamed(name) :
                             gate.metrics[k].coefficientOfVariation > gate.policy.maxCv})
        /\ \A name \in MetricNames : \A cv \in CvValues :
              Cardinality({v \in ViolationsOf("cv", name) :
                             gate.result.violations[v].actual = Some(cv)}) =
              Cardinality({k \in MetricsNamed(name) :
                             /\ gate.metrics[k].coefficientOfVariation = cv
                             /\ cv > gate.policy.maxCv})
        /\ \A k \in 1..Len(gate.result.violations) :
              gate.result.violations[k].rule = "cv" =>
                 /\ gate.result.violations[k].metric \in MetricNames
                 /\ gate.result.violations[k].threshold = Some(gate.policy.maxCv)

C8_Witness ==
    /\ gate.phase = "returned"
    /\ gate.policy.maxCv = 35
    /\ Len(gate.metrics) = 2
    /\ gate.metrics[1].coefficientOfVariation = 50
    /\ gate.metrics[2].coefficientOfVariation = 35
    /\ gate.metrics[1].name # gate.metrics[2].name
    /\ Cardinality(ViolationsOf("cv", gate.metrics[1].name)) = 1
    /\ ViolationsOf("cv", gate.metrics[2].name) = {}

\* C9: with compared = true, a metric with a non-null delta gets a
\* median-regression violation (threshold = -maxMedianRegressionPct) exactly
\* when its delta is strictly below -maxMedianRegressionPct; a delta equal to
\* the limit, zero or positive gets none; with compared = false there is no
\* median-regression violation at all.
C9_MedianRegressionOnlyBelowLimit ==
    gate.phase = "returned" =>
        /\ \A name \in MetricNames : \A delta \in DeltaValues \ {NoNumber} :
              Cardinality({v \in ViolationsOf("median-regression", name) :
                             gate.result.violations[v].actual = delta}) =
              Cardinality({k \in MetricsNamed(name) :
                             /\ gate.compared
                             /\ gate.metrics[k].medianDeltaPct = delta
                             /\ delta[1] < 0 - gate.policy.maxMedianRegressionPct})
        /\ \A k \in 1..Len(gate.result.violations) :
              gate.result.violations[k].rule = "median-regression" =>
                 /\ gate.compared
                 /\ gate.result.violations[k].metric \in MetricNames
                 /\ gate.result.violations[k].actual \in DeltaValues \ {NoNumber}
                 /\ gate.result.violations[k].actual[1] < 0
                 /\ gate.result.violations[k].threshold =
                       Some(0 - gate.policy.maxMedianRegressionPct)

C9_Witness ==
    /\ gate.phase = "returned"
    /\ gate.compared
    /\ gate.policy.maxMedianRegressionPct = 20
    /\ Len(gate.metrics) = 2
    /\ gate.metrics[1].medianDeltaPct = Some(-25)
    /\ gate.metrics[2].medianDeltaPct = Some(-20)
    /\ gate.metrics[1].name # gate.metrics[2].name
    /\ Cardinality(ViolationsOf("median-regression", gate.metrics[1].name)) = 1
    /\ ViolationsOf("median-regression", gate.metrics[2].name) = {}

\* C10: with compared = false and requireComparison = true the gate fails
\* with exactly one missing-comparison violation, the one of the wildcard
\* metric "*", whatever the metrics are (the empty list included); otherwise
\* no violation names the metric "*".
C10_WildcardMissingComparison ==
    gate.phase = "returned" =>
        LET wildcard == {k \in 1..Len(gate.result.violations) :
                            gate.result.violations[k].metric = "*"}
            missing == {k \in 1..Len(gate.result.violations) :
                            gate.result.violations[k].rule = "missing-comparison"}
        IN IF ~gate.compared /\ gate.policy.requireComparison
           THEN /\ ~gate.result.passed
                /\ Cardinality(wildcard) = 1
                /\ missing = wildcard
           ELSE wildcard = {}

C10_Witness ==
    /\ gate.phase = "returned"
    /\ ~gate.compared
    /\ gate.policy.requireComparison
    /\ gate.metrics = <<>>
    /\ ~gate.result.passed
    /\ Len(gate.result.violations) = 1

\* C11: with compared = true, every metric whose medianDeltaPct is null gets
\* one missing-comparison violation naming it (actual and threshold null),
\* and gets no median-regression violation: a name whose entries all have a
\* null delta has none, and no median-regression violation has a null actual.
C11_NullDeltaIsMissingComparison ==
    (gate.phase = "returned" /\ gate.compared) =>
        /\ \A name \in MetricNames :
              /\ Cardinality(ViolationsOf("missing-comparison", name)) =
                 Cardinality({k \in MetricsNamed(name) :
                                gate.metrics[k].medianDeltaPct = NoNumber})
              /\ (\A k \in MetricsNamed(name) : gate.metrics[k].medianDeltaPct = NoNumber)
                    => ViolationsOf("median-regression", name) = {}
        /\ \A k \in 1..Len(gate.result.violations) :
              /\ gate.result.violations[k].rule = "missing-comparison" =>
                    /\ gate.result.violations[k].actual = NoNumber
                    /\ gate.result.violations[k].threshold = NoNumber
              /\ gate.result.violations[k].rule = "median-regression" =>
                    gate.result.violations[k].actual # NoNumber

C11_Witness ==
    /\ gate.phase = "returned"
    /\ gate.compared
    /\ ~gate.policy.requireComparison
    /\ Len(gate.metrics) = 2
    /\ gate.metrics[1].medianDeltaPct = NoNumber
    /\ gate.metrics[2].medianDeltaPct = Some(-25)
    /\ gate.metrics[1].name # gate.metrics[2].name
    /\ Cardinality(ViolationsOf("missing-comparison", gate.metrics[1].name)) = 1
    /\ ViolationsOf("median-regression", gate.metrics[1].name) = {}

\* ------------------------------------------------ decodeComparisonSource
\* A decoded JSON value, by the features the type guards look at.
\* runtime: "absent" is no record, "invalid" a record without the strings,
\* "report" has bunVersion, platform and arch but no bunRevision, "profile"
\* has bunRevision (null or a string) as well.
\* options, metricsShape, samples: "absent", "invalid" (present, elements or
\* fields of the wrong type) or "valid".
RuntimeShapes == {"absent", "invalid", "report", "profile"}
FieldShapes == {"absent", "invalid", "valid"}
ProfileMedians == {90, 100}
ProfileMetrics == [name : MetricNames, medianOpsPerSecond : ProfileMedians]
ProfileMetricLists == UNION {[1..n -> ProfileMetrics] : n \in 0..MaxMetrics}

NotARecord ==
    [isRecord |-> FALSE, generatedAt |-> FALSE, runtime |-> "absent",
     options |-> "absent", metricsShape |-> "absent", metrics |-> <<>>,
     samples |-> "absent"]
DecodedValues ==
    {NotARecord} \cup
    {v \in [isRecord : {TRUE}, generatedAt : BOOLEAN, runtime : RuntimeShapes,
            options : FieldShapes, metricsShape : FieldShapes,
            metrics : ProfileMetricLists, samples : FieldShapes] :
        v.metricsShape # "valid" => v.metrics = <<>>}

isBaselineReport(value) ==
    IF ~value.isRecord THEN FALSE
    ELSE IF value.samples # "valid" THEN FALSE
    ELSE IF value.runtime = "absent" THEN FALSE
    ELSE value.generatedAt /\ value.runtime \in {"report", "profile"}

isBaselineProfile(value) ==
    IF ~value.isRecord THEN FALSE
    ELSE IF value.runtime = "absent" \/ value.options = "absent" THEN FALSE
    ELSE IF value.metricsShape # "valid" THEN FALSE
    ELSE value.generatedAt /\ value.runtime = "profile" /\ value.options = "valid"

\* new Map(entries): a later entry replaces an earlier one with the same key
toProfileMetricMap(profileMetrics) ==
    [name \in {profileMetrics[k].name : k \in 1..Len(profileMetrics)} |->
        LET last == CHOOSE k \in 1..Len(profileMetrics) :
                        /\ profileMetrics[k].name = name
                        /\ \A j \in (k + 1)..Len(profileMetrics) :
                               profileMetrics[j].name # name
        IN profileMetrics[last]]

NoError == ""
LegacyBaselineError == "legacy single-sample baseline is not supported"
UnsupportedFormatError == "unsupported compare file format"
NoValues == [name \in {} |-> NotARecord]

\* variant: the report guard is tried before the profile guard
decodeComparisonSource_ReportFirst(decoded) ==
    IF isBaselineReport(decoded)
    THEN [mode |-> "none", error |-> LegacyBaselineError, values |-> NoValues]
    ELSE IF isBaselineProfile(decoded)
    THEN [mode |-> "profile", error |-> NoError,
          values |-> toProfileMetricMap(decoded.metrics)]
    ELSE [mode |-> "none", error |-> UnsupportedFormatError, values |-> NoValues]

\* a returned ComparisonSource has mode "profile"; a thrown Error has mode
\* "none" and carries its message
decodeComparisonSource(decoded) ==
    IF isBaselineProfile(decoded)
    THEN [mode |-> "profile", error |-> NoError,
          values |-> toProfileMetricMap(decoded.metrics)]
    ELSE IF isBaselineReport(decoded)
    THEN [mode |-> "none", error |-> LegacyBaselineError, values |-> NoValues]
    ELSE [mode |-> "none", error |-> UnsupportedFormatError, values |-> NoValues]

InitDecode ==
    /\ HttpIdle
    /\ req = IdleRequest
    /\ gate = IdleGate
    /\ pack = IdlePack
    /\ call \in [phase : {"call"}, fn : {"decodeComparisonSource"},
                 input : DecodedValues, result : {Null}]

DecodeComparisonSource ==
    /\ call.phase = "call"
    /\ call.fn = "decodeComparisonSource"
    /\ call' = [call EXCEPT !.phase = "returned",
                            !.result = decodeComparisonSource(call.input)]
    /\ UNCHANGED <<httpVars, req, gate, pack>>

SpecDecode == InitDecode /\ [][DecodeComparisonSource]_vars

\* the two shapes, read off the decoded value
ProfileShaped(v) ==
    /\ v.isRecord /\ v.generatedAt /\ v.runtime = "profile"
    /\ v.options = "valid" /\ v.metricsShape = "valid"
ReportShaped(v) ==
    /\ v.isRecord /\ v.generatedAt /\ v.runtime \in {"report", "profile"}
    /\ v.samples = "valid"

MaxWarmupRounds == 1
MaxRounds == 2

\* opsPerSecond of one sample; every mean and median of up to four of these
\* values is a whole number
OpsValues == {60, 120}
\* the order of localeCompare on the metric names
MetricOrder == <<"json-stringify-parse", "uint8array-copy">>

NoPath == ""
DEFAULT_PROFILE_COMPARE_PATH == "benchmarks/baseline-profile.json"
CustomComparePath == "custom/compare.json"
ComparePaths == {DEFAULT_PROFILE_COMPARE_PATH, CustomComparePath}

\* Math.sqrt(variance) / average in hundredths, rounded up: it exceeds a
\* threshold of whole hundredths exactly when the quotient does
MaxCvHundredths == 400
cvHundredths(variance, average) ==
    IF average = 0 THEN 0
    ELSE CHOOSE c \in 0..MaxCvHundredths :
            /\ (c * average) * (c * average) >= 10000 * variance
            /\ c > 0 => ((c - 1) * average) * ((c - 1) * average) < 10000 * variance

calculateStats(values) ==
    LET sorted == sortAscending(values)
        rounds == Len(sorted)
        sum == SumSeq(sorted)
        averageOpsPerSecond == sum \div rounds
        medianOpsPerSecond ==
            IF rounds % 2 = 1
            THEN sorted[((rounds - 1) \div 2) + 1]
            ELSE (sorted[rounds \div 2] + sorted[(rounds \div 2) + 1]) \div 2
        trimmedValues == IF rounds > 2 THEN SubSeq(sorted, 2, rounds - 1) ELSE sorted
        variance ==
            SumSeq([k \in 1..rounds |->
                       (sorted[k] - averageOpsPerSecond) * (sorted[k] - averageOpsPerSecond)])
            \div rounds
    IN [rounds |-> rounds,
        averageOpsPerSecond |-> averageOpsPerSecond,
        medianOpsPerSecond |-> medianOpsPerSecond,
        trimmedMeanOpsPerSecond |-> SumSeq(trimmedValues) \div Len(trimmedValues),
        minOpsPerSecond |-> sorted[1],
        maxOpsPerSecond |-> sorted[rounds],
        coefficientOfVariation |-> cvHundredths(variance, averageOpsPerSecond)]

\* a file of the compare path: absent, not JSON, or JSON with a decoded value
AbsentFile == [exists |-> FALSE, parses |-> FALSE, decoded |-> NotARecord]
UnparseableFile == [exists |-> TRUE, parses |-> FALSE, decoded |-> NotARecord]
JsonFile(decoded) == [exists |-> TRUE, parses |-> TRUE, decoded |-> decoded]
LegacyReport ==
    [isRecord |-> TRUE, generatedAt |-> TRUE, runtime |-> "report",
     options |-> "absent", metricsShape |-> "absent", metrics |-> <<>>,
     samples |-> "valid"]
Profile(profileMetrics) ==
    [isRecord |-> TRUE, generatedAt |-> TRUE, runtime |-> "profile",
     options |-> "valid", metricsShape |-> "valid", metrics |-> profileMetrics,
     samples |-> "absent"]
FullProfile ==
    Profile(<<[name |-> "json-stringify-parse", medianOpsPerSecond |-> 100],
              [name |-> "uint8array-copy", medianOpsPerSecond |-> 100]>>)
PartialProfile ==
    Profile(<<[name |-> "json-stringify-parse", medianOpsPerSecond |-> 100]>>)
CompareFiles ==
    {AbsentFile, UnparseableFile, JsonFile(NotARecord), JsonFile(LegacyReport),
     JsonFile(FullProfile), JsonFile(PartialProfile)}

NotFoundError == "compare baseline not found"
JsonSyntaxError == "JSON Parse error"
CommandFailedError == "command failed"
GateFailedError == "benchmark gate failed"
ComparisonErrors ==
    {NotFoundError, JsonSyntaxError, LegacyBaselineError, UnsupportedFormatError}

\* comparisonSource = null
NoSource == [mode |-> "none", error |-> NoError, values |-> NoValues]

resolveComparisonPath(options, files) ==
    IF options.comparePath # NoPath THEN options.comparePath
    ELSE IF files[DEFAULT_PROFILE_COMPARE_PATH].exists THEN DEFAULT_PROFILE_COMPARE_PATH
    ELSE NoPath

maybeLoadComparisonSource(options, files) ==
    LET comparePath == resolveComparisonPath(options, files)
    IN IF comparePath = NoPath THEN NoSource
       ELSE IF ~files[comparePath].exists
       THEN [mode |-> "none", error |-> NotFoundError, values |-> NoValues]
       ELSE IF ~files[comparePath].parses
       THEN [mode |-> "none", error |-> JsonSyntaxError, values |-> NoValues]
       ELSE decodeComparisonSource(files[comparePath].decoded)

\* BaselineComparison | null: <<>> is null, <<c>> the comparison c; the
\* delta is in percent, rounded down: it is below a limit of whole percent
\* exactly when the quotient is
NoComparison == <<>>

\* variant: a metric the profile lacks is compared as unchanged
buildComparison_AbsentIsUnchanged(stats, metricName, source) ==
    IF source.mode # "profile" THEN NoComparison
    ELSE IF metricName \notin DOMAIN source.values
    THEN <<[referenceMedianOpsPerSecond |-> stats.medianOpsPerSecond,
            medianDeltaPct |-> 0]>>
    ELSE LET profileMetric == source.values[metricName]
         IN <<[referenceMedianOpsPerSecond |-> profileMetric.medianOpsPerSecond,
               medianDeltaPct |->
                   ((stats.medianOpsPerSecond - profileMetric.medianOpsPerSecond) * 100)
                   \div profileMetric.medianOpsPerSecond]>>

buildComparison(stats, metricName, source) ==
    IF source.mode # "profile" THEN NoComparison
    ELSE IF metricName \notin DOMAIN source.values THEN NoComparison
    ELSE LET profileMetric == source.values[metricName]
         IN <<[referenceMedianOpsPerSecond |-> profileMetric.medianOpsPerSecond,
               medianDeltaPct |->
                   ((stats.medianOpsPerSecond - profileMetric.medianOpsPerSecond) * 100)
                   \div profileMetric.medianOpsPerSecond]>>

\* lines 977-987: the buckets in name order, each with stats and comparison
baselineSummaryOf(baselineBuckets, source) ==
    LET present == SelectSeq(MetricOrder, LAMBDA name : baselineBuckets[name] # <<>>)
    IN [k \in 1..Len(present) |->
           LET stats == calculateStats(baselineBuckets[present[k]])
           IN [name |-> present[k],
               stats |-> stats,
               comparison |-> buildComparison(stats, present[k], source)]]

\* lines 992-996: the gate's input metrics
gateInputOf(baselineSummary) ==
    [k \in 1..Len(baselineSummary) |->
        [name |-> baselineSummary[k].name,
         coefficientOfVariation |-> baselineSummary[k].stats.coefficientOfVariation,
         medianDeltaPct |->
             IF baselineSummary[k].comparison = NoComparison THEN NoNumber
             ELSE Some(baselineSummary[k].comparison[1].medianDeltaPct)]]

\* lines 998-1002
gatePolicyOf(options) ==
    [maxCv |-> options.gateMaxCv,
     maxMedianRegressionPct |-> options.gateMaxMedianRegressionPct,
     requireComparison |-> options.gateRequireComparison]

PackOptions ==
    [warmupRounds : 0..MaxWarmupRounds, rounds : 1..MaxRounds,
     comparePath : {NoPath, CustomComparePath},
     profileOut : {NoPath, CustomComparePath},
     gateMaxCv : {35}, gateMaxMedianRegressionPct : {20},
     gateRequireComparison : BOOLEAN,
     withHttp : BOOLEAN, withReliability : BOOLEAN, archive : BOOLEAN]

\* the files at the compare paths before the run; only the file the options
\* lead to varies
PackFiles(options) ==
    {files \in [ComparePaths -> CompareFiles] :
        \A path \in ComparePaths :
            (path # (IF options.comparePath = NoPath
                     THEN DEFAULT_PROFILE_COMPARE_PATH ELSE options.comparePath))
                => files[path] = AbsentFile}

NoGateResult == evaluateBenchmarkGate(<<>>, FALSE,
                    [maxCv |-> 0, maxMedianRegressionPct |-> 0, requireComparison |-> FALSE])

\* lines 928-929; the out directory holds none of the compare paths
OutDirProfilePath == "out/baseline-profile.json"
baselineProfilePath(options) ==
    IF options.profileOut = NoPath THEN OutDirProfilePath ELSE options.profileOut

PackStart(options, files) ==
    [pc |-> "setup", options |-> options, files |-> files, round |-> 1,
     profileWrittenTo |-> NoPath,
     baselineBuckets |-> [name \in MetricNames |-> <<>>],
     comparisonSource |-> NoSource, baselineSummary |-> <<>>,
     gate |-> NoGateResult, log |-> <<>>, error |-> NoError]

InitPack ==
    /\ HttpIdle
    /\ req = IdleRequest
    /\ gate = IdleGate
    /\ call = IdleCall
    /\ \E options \in PackOptions : \E files \in PackFiles(options) :
           pack = PackStart(options, files)

PackFail(message) == pack' = [pack EXCEPT !.pc = "failed", !.error = message]

\* lines 937-941
PackSetup ==
    /\ pack.pc = "setup"
    /\ pack' = [pack EXCEPT
                  !.pc = IF pack.options.warmupRounds >= 1 THEN "warmup" ELSE "measured",
                  !.log = Append(@, "write run-config")]
    /\ UNCHANGED <<httpVars, req, gate, call>>

\* lines 949-957: one warmup round; the command may exit non-zero
WarmupRound ==
    /\ pack.pc = "warmup"
    /\ \/ PackFail(CommandFailedError)
       \/ pack' = [pack EXCEPT
                     !.pc = IF pack.round < pack.options.warmupRounds
                            THEN "warmup" ELSE "measured",
                     !.round = IF pack.round < pack.options.warmupRounds
                               THEN pack.round + 1 ELSE 1,
                     !.log = Append(@, "warmup round")]
    /\ UNCHANGED <<httpVars, req, gate, call>>

\* lines 960-973: one measured round; its samples go to the buckets
MeasuredRound ==
    /\ pack.pc = "measured"
    /\ \/ PackFail(CommandFailedError)
       \/ \E samples \in [MetricNames -> OpsValues] :
             pack' = [pack EXCEPT
                        !.pc = IF pack.round < pack.options.rounds
                               THEN "measured" ELSE "load",
                        !.round = pack.round + 1,
                        !.baselineBuckets =
                            [name \in MetricNames |-> Append(@[name], samples[name])],
                        !.log = Append(@, "measured round")]
    /\ UNCHANGED <<httpVars, req, gate, call>>

\* line 975
LoadComparison ==
    /\ pack.pc = "load"
    /\ LET source == maybeLoadComparisonSource(pack.options, pack.files)
       IN IF source.error # NoError
          THEN PackFail(source.error)
          ELSE pack' = [pack EXCEPT !.pc = "summarize", !.comparisonSource = source]
    /\ UNCHANGED <<httpVars, req, gate, call>>

\* variant: a failing gate ends the run where it is evaluated
SummarizeAndGate_ThrowOnViolation ==
    /\ pack.pc = "summarize"
    /\ LET baselineSummary == baselineSummaryOf(pack.baselineBuckets, pack.comparisonSource)
           result == evaluateBenchmarkGate(gateInputOf(baselineSummary),
                         pack.comparisonSource.mode = "profile",
                         gatePolicyOf(pack.options))
       IN pack' = [pack EXCEPT
                     !.pc = IF result.passed THEN "profile" ELSE "failed",
                     !.error = IF result.passed THEN NoError ELSE GateFailedError,
                     !.log = IF result.passed THEN @ ELSE Append(@, "gate failure"),
                     !.baselineSummary = baselineSummary,
                     !.gate = result]
    /\ UNCHANGED <<httpVars, req, gate, call>>

\* lines 977-1003
SummarizeAndGate ==
    /\ pack.pc = "summarize"
    /\ LET baselineSummary == baselineSummaryOf(pack.baselineBuckets, pack.comparisonSource)
       IN pack' = [pack EXCEPT
                     !.pc = "profile",
                     !.baselineSummary = baselineSummary,
                     !.gate = evaluateBenchmarkGate(gateInputOf(baselineSummary),
                                  pack.comparisonSource.mode = "profile",
                                  gatePolicyOf(pack.options))]
    /\ UNCHANGED <<httpVars, req, gate, call>>

\* line 1026
WriteBaselineProfile ==
    /\ pack.pc = "profile"
    /\ pack' = [pack EXCEPT !.pc = "http",
                             !.profileWrittenTo = baselineProfilePath(pack.options),
                             !.log = Append(@, "write baseline profile")]
    /\ UNCHANGED <<httpVars, req, gate, call>>

\* lines 1029-1061: the matrix command or its validation may fail
HttpMatrix ==
    /\ pack.pc = "http"
    /\ IF ~pack.options.withHttp
       THEN pack' = [pack EXCEPT !.pc = "reliability"]
       ELSE \/ PackFail(CommandFailedError)
            \/ pack' = [pack EXCEPT !.pc = "reliability",
                                    !.log = Append(@, "http matrix")]
    /\ UNCHANGED <<httpVars, req, gate, call>>

\* lines 1064-1074
ReliabilityE2E ==
    /\ pack.pc = "reliability"
    /\ IF ~pack.options.withReliability
       THEN pack' = [pack EXCEPT !.pc = "archive"]
       ELSE \/ PackFail(CommandFailedError)
            \/ pack' = [pack EXCEPT !.pc = "archive",
                                    !.log = Append(@, "write reliability log")]
    /\ UNCHANGED <<httpVars, req, gate, call>>

\* lines 1076-1080
Archive ==
    /\ pack.pc = "archive"
    /\ IF ~pack.options.archive
       THEN pack' = [pack EXCEPT !.pc = "summaryJson"]
       ELSE \/ PackFail(CommandFailedError)
            \/ pack' = [pack EXCEPT !.pc = "summaryJson",
                                    !.log = Append(@, "archive")]
    /\ UNCHANGED <<httpVars, req, gate, call>>

\* line 1145
WriteSummaryJson ==
    /\ pack.pc = "summaryJson"
    /\ pack' = [pack EXCEPT !.pc = "summaryMd", !.log = Append(@, "write summary json")]
    /\ UNCHANGED <<httpVars, req, gate, call>>

\* line 1146
WriteSummaryMd ==
    /\ pack.pc = "summaryMd"
    /\ pack' = [pack EXCEPT !.pc = "gate", !.log = Append(@, "write summary md")]
    /\ UNCHANGED <<httpVars, req, gate, call>>

\* lines 1153-1162
RaiseGateFailure ==
    /\ pack.pc = "gate"
    /\ IF ~pack.gate.passed
       THEN pack' = [pack EXCEPT !.pc = "failed", !.error = GateFailedError,
                                 !.log = Append(@, "gate failure")]
       ELSE pack' = [pack EXCEPT !.pc = "done"]
    /\ UNCHANGED <<httpVars, req, gate, call>>

NextPack ==
    \/ PackSetup
    \/ WarmupRound
    \/ MeasuredRound
    \/ LoadComparison
    \/ SummarizeAndGate
    \/ WriteBaselineProfile
    \/ HttpMatrix
    \/ ReliabilityE2E
    \/ Archive
    \/ WriteSummaryJson
    \/ WriteSummaryMd
    \/ RaiseGateFailure

SpecPack == InitPack /\ [][NextPack]_vars

\* positions of an event in the log of the run
EventsOf(event) == {k \in 1..Len(pack.log) : pack.log[k] = event}
Summarized == pack.pc \in {"profile", "http", "reliability", "archive",
                           "summaryJson", "summaryMd", "gate", "done"}
                 \/ (pack.pc = "failed" /\ EventsOf("write baseline profile") # {})

\* the metric names of the profile in the compare file the options lead to
ComparePathOfRun == resolveComparisonPath(pack.options, pack.files)
ProfileNamesOfRun ==
    IF ComparePathOfRun = NoPath THEN {}
    ELSE LET decoded == pack.files[ComparePathOfRun].decoded
         IN {decoded.metrics[k].name : k \in 1..Len(decoded.metrics)}
CvsWithinMax ==
    \A k \in 1..Len(pack.baselineSummary) :
        pack.baselineSummary[k].stats.coefficientOfVariation <= pack.options.gateMaxCv
NoComparedMetricRegresses ==
    \A k \in 1..Len(pack.baselineSummary) :
        pack.baselineSummary[k].comparison # NoComparison =>
            pack.baselineSummary[k].comparison[1].medianDeltaPct
                >= 0 - pack.options.gateMaxMedianRegressionPct
MissingComparisonFor(name) ==
    \E k \in 1..Len(pack.gate.violations) :
        /\ pack.gate.violations[k].rule = "missing-comparison"
        /\ pack.gate.violations[k].metric = name

\* C12 as stated: without requireComparison, a run whose CVs are all within
\* maxCv and whose compared metrics do not regress passes the gate, whether
\* or not a metric is missing from the profile.
C12_MissingMetricPassesUnlessRequired ==
    (Summarized /\ ~pack.options.gateRequireComparison
        /\ CvsWithinMax /\ NoComparedMetricRegresses) => pack.gate.passed

\* C12 amended: a metric gets a null comparison exactly when no profile was
\* loaded or the loaded profile has no metric of its name; with a profile
\* loaded, each metric the profile lacks is a missing-comparison violation
\* and the run fails the gate whatever requireComparison is; with no profile
\* and requireComparison = false, a run whose CVs are within maxCv passes.
C12_MissingMetricFailsLoadedProfile ==
    Summarized =>
        /\ \A k \in 1..Len(pack.baselineSummary) :
              LET item == pack.baselineSummary[k]
                  loaded == pack.comparisonSource.mode = "profile"
              IN /\ (item.comparison = NoComparison)
                        <=> (~loaded \/ item.name \notin ProfileNamesOfRun)
                 /\ (loaded /\ item.name \notin ProfileNamesOfRun) =>
                        /\ MissingComparisonFor(item.name)
                        /\ ~pack.gate.passed
                 /\ (loaded /\ item.name \in ProfileNamesOfRun) =>
                        ~MissingComparisonFor(item.name)
        /\ (pack.comparisonSource.mode # "profile"
               /\ ~pack.options.gateRequireComparison /\ CvsWithinMax) => pack.gate.passed

C12_Witness ==
    /\ Summarized
    /\ ~pack.options.gateRequireComparison
    /\ pack.comparisonSource.mode = "profile"
    /\ Len(pack.baselineSummary) = 2
    /\ pack.baselineSummary[1].comparison # NoComparison
    /\ pack.baselineSummary[2].comparison = NoComparison
    /\ CvsWithinMax
    /\ NoComparedMetricRegresses
    /\ ~pack.gate.passed
    /\ Len(pack.gate.violations) = 1
    /\ MissingComparisonFor(pack.baselineSummary[2].name)

\* C14 as stated: a run that fails on its comparison baseline (missing,
\* unparseable, invalid or legacy) has executed no warmup round and no
\* measured round.
C14_BaselineFailureBeforeAnyRound ==
    (pack.pc = "failed" /\ pack.error \in ComparisonErrors) =>
        /\ EventsOf("warmup round") = {}
        /\ EventsOf("measured round") = {}

\* C15: a gate failure is raised only after the baseline profile, the
\* summary JSON and the summary Markdown were written, in this order, and
\* only for a gate result that is recorded with passed = false and at least
\* one violation; evaluating the gate never ends the run by itself: a run
\* that failed before the profile was written failed on a command or on the
\* comparison baseline.
C15_ArtifactsWrittenBeforeGateFailure ==
    /\ \A g \in EventsOf("gate failure") :
          \E p \in EventsOf("write baseline profile") :
          \E j \in EventsOf("write summary json") :
          \E m \in EventsOf("write summary md") :
              p < j /\ j < m /\ m < g
    /\ (pack.pc = "failed" /\ pack.error = GateFailedError) =>
          /\ EventsOf("gate failure") # {}
          /\ ~pack.gate.passed
          /\ pack.gate.violations # <<>>
    /\ (pack.pc = "failed" /\ EventsOf("write baseline profile") = {}) =>
          pack.error \in ComparisonErrors \cup {CommandFailedError}
    /\ (pack.pc = "done") =>
          /\ pack.gate.passed
          /\ EventsOf("write baseline profile") # {}
          /\ EventsOf("write summary md") # {}

C15_Witness ==
    /\ pack.pc = "failed"
    /\ pack.error = GateFailedError
    /\ ~pack.gate.passed
    /\ EventsOf("write baseline profile") # {}
    /\ EventsOf("write summary json") # {}
    /\ EventsOf("write summary md") # {}
    /\ pack.log[Len(pack.log)] = "gate failure"

\* ------------------------------------------------------- evaluateWasmGate
\* timings in milliseconds, benefit ratios in tenths
TimingValues == {-5, 0, 2, 3, 10, 40}
BenefitValues == {-1, 0, 1}
WasmTimings == [marshalMs : TimingValues, computeMs : TimingValues, unmarshalMs : TimingValues]
WasmBenefits ==
    [throughputDeltaRatio : BenefitValues, p95DeltaRatio : BenefitValues,
     cpuTimeDeltaRatio : BenefitValues]

\* the literal 0.4 of shouldDisable, in tenths
SerializationRatioLimitTenths == 4

clampToZero(value) == IF value > 0 THEN value ELSE 0

hasEndpointBenefit(benefit) ==
    LET throughputImproved == benefit.throughputDeltaRatio > 0
        p95Improved == benefit.p95DeltaRatio < 0
        cpuImproved == benefit.cpuTimeDeltaRatio < 0
    IN throughputImproved \/ p95Improved \/ cpuImproved

\* variant: a serialization ratio equal to the limit disables as well
evaluateWasmGate_AtLimit(timing, benefit) ==
    LET marshalMs == clampToZero(timing.marshalMs)
        computeMs == clampToZero(timing.computeMs)
        unmarshalMs == clampToZero(timing.unmarshalMs)
        totalMs == marshalMs + computeMs + unmarshalMs
        serializationMs == marshalMs + unmarshalMs
        serializationRatio == IF totalMs = 0 THEN Ratio(0, 1)
                              ELSE Ratio(serializationMs, totalMs)
        noEndpointBenefit == ~hasEndpointBenefit(benefit)
    IN [totalMs |-> totalMs,
        serializationRatio |-> serializationRatio,
        noEndpointBenefit |-> noEndpointBenefit,
        shouldDisable |->
            /\ 10 * serializationRatio.num
                  >= SerializationRatioLimitTenths * serializationRatio.den
            /\ noEndpointBenefit]

evaluateWasmGate(timing, benefit) ==
    LET marshalMs == clampToZero(timing.marshalMs)
        computeMs == clampToZero(timing.computeMs)
        unmarshalMs == clampToZero(timing.unmarshalMs)
        totalMs == marshalMs + computeMs + unmarshalMs
        serializationMs == marshalMs + unmarshalMs
        serializationRatio == IF totalMs = 0 THEN Ratio(0, 1)
                              ELSE Ratio(serializationMs, totalMs)
        noEndpointBenefit == ~hasEndpointBenefit(benefit)
    IN [totalMs |-> totalMs,
        serializationRatio |-> serializationRatio,
        noEndpointBenefit |-> noEndpointBenefit,
        shouldDisable |->
            /\ RatioExceedsTenths(serializationRatio, SerializationRatioLimitTenths)
            /\ noEndpointBenefit]

InitWasm ==
    /\ HttpIdle
    /\ req = IdleRequest
    /\ gate = IdleGate
    /\ pack = IdlePack
    /\ call \in [phase : {"call"}, fn : {"evaluateWasmGate"},
                 input : [timing : WasmTimings, benefit : WasmBenefits],
                 result : {Null}]

EvaluateWasmGate ==
    /\ call.phase = "call"
    /\ call.fn = "evaluateWasmGate"
    /\ call' = [call EXCEPT
                  !.phase = "returned",
                  !.result = evaluateWasmGate(call.input.timing, call.input.benefit)]
    /\ UNCHANGED <<httpVars, req, gate, pack>>

SpecWasm == InitWasm /\ [][EvaluateWasmGate]_vars

\* C16: shouldDisable is true exactly when the serialization share of the
\* clamped timings exceeds 0.4 and no benefit signal is present; totalMs is
\* the sum of the clamped timings and the ratio is 0 when that sum is 0; any
\* single benefit signal gives shouldDisable = false, and so does a share of
\* exactly 0.4.
C16_DisableIffCostlyAndNoBenefit ==
    (call.phase = "returned" /\ call.fn = "evaluateWasmGate") =>
        LET t == call.input.timing
            b == call.input.benefit
            r == call.result
            m == Max2(0, t.marshalMs)
            c == Max2(0, t.computeMs)
            u == Max2(0, t.unmarshalMs)
            observed == b.throughputDeltaRatio > 0 \/ b.p95DeltaRatio < 0
                           \/ b.cpuTimeDeltaRatio < 0
        IN /\ r.totalMs = m + c + u
           /\ r.totalMs = 0 => r.serializationRatio.num = 0
           /\ r.totalMs > 0 =>
                 r.serializationRatio.num * r.totalMs = (m + u) * r.serializationRatio.den
           /\ r.serializationRatio.den > 0
           /\ r.noEndpointBenefit <=> ~observed
           /\ r.shouldDisable <=>
                 (r.totalMs > 0 /\ 10 * (m + u) > 4 * r.totalMs /\ ~observed)
           /\ observed => ~r.shouldDisable
           /\ 10 * (m + u) = 4 * r.totalMs => ~r.shouldDisable

C16_Witness ==
    /\ call.phase = "returned"
    /\ call.fn = "evaluateWasmGate"
    /\ call.input.timing = [marshalMs |-> 40, computeMs |-> 10, unmarshalMs |-> 40]
    /\ call.input.benefit =
          [throughputDeltaRatio |-> 0, p95DeltaRatio |-> 0, cpuTimeDeltaRatio |-> 0]
    /\ call.result.shouldDisable
    /\ call.result.totalMs = 90

\* ---------------------------------------------------- computeLatencyStats
MaxSamples == 4
LatencyValues == {1, 4, 9}
\* twenty distinct samples, largest first
LongSamples == [k \in 1..20 |-> 21 - k]
SampleLists == UNION {[1..n -> LatencyValues] : n \in 0..MaxSamples} \cup {LongSamples}

\* samples is the caller's array, input its content at the call
InitLatency ==
    /\ HttpIdle
    /\ req = IdleRequest
    /\ gate = IdleGate
    /\ pack = IdlePack
    /\ \E list \in SampleLists :
          call = [phase |-> "call", fn |-> "computeLatencyStats",
                  input |-> list, samples |-> list, result |-> ZeroLatencyStats]

\* the sort of line 101 works on a copy, so the caller's array stays as it is
ComputeLatencyStats ==
    /\ call.phase = "call"
    /\ call.fn = "computeLatencyStats"
    /\ call' = [call EXCEPT !.phase = "returned",
                            !.result = computeLatencyStats(call.samples)]
    /\ UNCHANGED <<httpVars, req, gate, pack>>

SpecLatency == InitLatency /\ [][ComputeLatencyStats]_vars

\* C17: for a non-empty list min <= p50 <= p95 <= p99 <= max, min and max
\* are the smallest and the largest sample and each percentile is one of the
\* samples; for the empty list min, max, avg, p50, p95 and p99 are all 0;
\* the caller's list is as it was at the call.
C17_LatencyStatsOrdered ==
    (call.phase = "returned" /\ call.fn = "computeLatencyStats") =>
        LET x == call.input
            r == call.result
            elements == {x[k] : k \in 1..Len(x)}
        IN /\ Len(x) = 0 =>
                 /\ r.min = 0 /\ r.max = 0 /\ r.avg.num = 0
                 /\ r.p50 = 0 /\ r.p95 = 0 /\ r.p99 = 0
           /\ Len(x) > 0 =>
                 /\ r.min <= r.p50 /\ r.p50 <= r.p95
                 /\ r.p95 <= r.p99 /\ r.p99 <= r.max
                 /\ {r.min, r.max, r.p50, r.p95, r.p99} \subseteq elements
                 /\ \A e \in elements : r.min <= e /\ e <= r.max
                 /\ r.avg.num = SumSeq(x) /\ r.avg.den = Len(x)
           /\ call.samples = x

C17_Witness ==
    /\ call.phase = "returned"
    /\ call.fn = "computeLatencyStats"
    /\ call.input = LongSamples
    /\ call.samples = LongSamples
    /\ call.result.min = 1
    /\ call.result.p50 = 10
    /\ call.result.p95 = 19
    /\ call.result.p99 = 20
    /\ call.result.max = 20

\* ------------------------------------------- summarizeHttpBenchmarkResult
MaxCount == 3
RawDurations == {-3, 0, 500, 2000}
RawResults ==
    {[successCount |-> successCount, failureCount |-> failureCount,
      totalDurationMs |-> totalDurationMs,
      latenciesMs |-> [k \in 1..(successCount + failureCount) |-> 4]] :
        successCount \in 0..MaxCount, failureCount \in 0..MaxCount,
        totalDurationMs \in RawDurations}

InitSummarize ==
    /\ HttpIdle
    /\ req = IdleRequest
    /\ gate = IdleGate
    /\ pack = IdlePack
    /\ \E rawResult \in RawResults :
          call = [phase |-> "call", fn |-> "summarizeHttpBenchmarkResult",
                  input |-> rawResult,
                  result |-> summarizeHttpBenchmarkResult(
                                 [successCount |-> 0, failureCount |-> 0,
                                  totalDurationMs |-> 0, latenciesMs |-> <<>>])]

SummarizeHttpBenchmarkResult ==
    /\ call.phase = "call"
    /\ call.fn = "summarizeHttpBenchmarkResult"
    /\ call' = [call EXCEPT !.phase = "returned",
                            !.result = summarizeHttpBenchmarkResult(call.input)]
    /\ UNCHANGED <<httpVars, req, gate, pack>>

SpecSummarize == InitSummarize /\ [][SummarizeHttpBenchmarkResult]_vars

\* C18: errorRate is failureCount / (successCount + failureCount), 0 when
\* there are no requests, and lies in [0, 1]; both throughputs are 0 when
\* totalDurationMs <= 0; otherwise throughputRps is requests per second,
\* successThroughputRps is successes per second and is at most throughputRps.
C18_ErrorRateAndThroughput ==
    (call.phase = "returned" /\ call.fn = "summarizeHttpBenchmarkResult") =>
        LET x == call.input
            r == call.result
            n == x.successCount + x.failureCount
        IN /\ r.requests = n
           /\ r.errorRate.den > 0
           /\ r.throughputRps.den > 0
           /\ r.successThroughputRps.den > 0
           /\ n = 0 => r.errorRate.num = 0
           /\ n > 0 => r.errorRate.num * n = x.failureCount * r.errorRate.den
           /\ 0 <= r.errorRate.num /\ r.errorRate.num <= r.errorRate.den
           /\ x.totalDurationMs <= 0 =>
                 r.throughputRps.num = 0 /\ r.successThroughputRps.num = 0
           /\ x.totalDurationMs > 0 =>
                 /\ r.throughputRps.num * x.totalDurationMs
                       = n * 1000 * r.throughputRps.den
                 /\ r.successThroughputRps.num * x.totalDurationMs
                       = x.successCount * 1000 * r.successThroughputRps.den
                 /\ r.successThroughputRps.num * r.throughputRps.den
                       <= r.throughputRps.num * r.successThroughputRps.den

C18_Witness ==
    /\ call.phase = "returned"
    /\ call.fn = "summarizeHttpBenchmarkResult"
    /\ call.input.successCount = 1
    /\ call.input.failureCount = 3
    /\ call.input.totalDurationMs = 500
    /\ call.result.errorRate = Ratio(3, 4)
    /\ call.result.throughputRps = Ratio(4000, 500)
    /\ call.result.successThroughputRps = Ratio(1000, 500)

\* ------------------------------------------------- buildThroughputRanking
MaxResults == 3

\* the four sort keys of a result: throughputs in requests per second, the
\* error rate in percent, the p95 latency in milliseconds
RankingKeys ==
    {[successThroughputRps |-> 20, errorRate |-> 0, throughputRps |-> 20, p95 |-> 5],
     [successThroughputRps |-> 20, errorRate |-> 0, throughputRps |-> 20, p95 |-> 9],
     [successThroughputRps |-> 20, errorRate |-> 0, throughputRps |-> 30, p95 |-> 5],
     [successThroughputRps |-> 20, errorRate |-> 50, throughputRps |-> 30, p95 |-> 5],
     [successThroughputRps |-> 10, errorRate |-> 0, throughputRps |-> 30, p95 |-> 5]}
\* target names, as numbers
TargetNames == 1..MaxResults
RankingResults ==
    {[name |-> name, successThroughputRps |-> keys.successThroughputRps,
      errorRate |-> keys.errorRate, throughputRps |-> keys.throughputRps,
      p95 |-> keys.p95] : name \in TargetNames, keys \in RankingKeys}
\* lists of results of distinct targets
ResultLists ==
    UNION {{list \in [1..n -> RankingResults] :
               \A i, j \in 1..n : i # j => list[i].name # list[j].name} :
           n \in 0..MaxResults}

\* variant: the error rate is consulted before the success throughput
compareResults_ErrorRateFirst(left, right) ==
    IF left.errorRate # right.errorRate
    THEN left.errorRate - right.errorRate
    ELSE IF right.successThroughputRps # left.successThroughputRps
    THEN right.successThroughputRps - left.successThroughputRps
    ELSE IF right.throughputRps # left.throughputRps
    THEN right.throughputRps - left.throughputRps
    ELSE left.p95 - right.p95

\* the comparator of lines 136-147
compareResults(left, right) ==
    IF right.successThroughputRps # left.successThroughputRps
    THEN right.successThroughputRps - left.successThroughputRps
    ELSE IF left.errorRate # right.errorRate
    THEN left.errorRate - right.errorRate
    ELSE IF right.throughputRps # left.throughputRps
    THEN right.throughputRps - left.throughputRps
    ELSE left.p95 - right.p95

\* Array.prototype.sort is stable: results that compare equal keep the
\* order they had
RECURSIVE insertStable(_, _)
insertStable(result, sorted) ==
    IF sorted = <<>> THEN <<result>>
    ELSE IF compareResults(result, Head(sorted)) <= 0 THEN <<result>> \o sorted
    ELSE <<Head(sorted)>> \o insertStable(result, Tail(sorted))

RECURSIVE sortResults(_)
sortResults(results) ==
    IF results = <<>> THEN <<>>
    ELSE insertStable(Head(results), sortResults(Tail(results)))

buildThroughputRanking(results) ==
    LET sorted == sortResults(results)
    IN [index \in 1..Len(sorted) |->
           [rank |-> index,
            name |-> sorted[index].name,
            successThroughputRps |-> sorted[index].successThroughputRps,
            throughputRps |-> sorted[index].throughputRps,
            errorRate |-> sorted[index].errorRate,
            p95LatencyMs |-> sorted[index].p95]]

\* results is the caller's array, input its content at the call
InitRanking ==
    /\ HttpIdle
    /\ req = IdleRequest
    /\ gate = IdleGate
    /\ pack = IdlePack
    /\ \E list \in ResultLists :
          call = [phase |-> "call", fn |-> "buildThroughputRanking",
                  input |-> list, results |-> list, result |-> <<>>]

\* the sort of line 135 works on a copy, so the caller's array stays as it is
BuildThroughputRanking ==
    /\ call.phase = "call"
    /\ call.fn = "buildThroughputRanking"
    /\ call' = [call EXCEPT !.phase = "returned",
                            !.result = buildThroughputRanking(call.results)]
    /\ UNCHANGED <<httpVars, req, gate, pack>>

SpecRanking == InitRanking /\ [][BuildThroughputRanking]_vars

\* the rank a ranking gives to a target, and the reorderings of a list
RankOf(ranking, name) ==
    (CHOOSE k \in 1..Len(ranking) : ranking[k].name = name)
Reorderings(list) ==
    {[k \in 1..Len(list) |-> list[p[k]]] :
        p \in {q \in [1..Len(list) -> 1..Len(list)] :
                  \A i, j \in 1..Len(list) : i # j => q[i] # q[j]}}
\* a comes no later than b by the four keys
NoLaterByKeys(a, b) ==
    \/ a.successThroughputRps > b.successThroughputRps
    \/ /\ a.successThroughputRps = b.successThroughputRps
       /\ \/ a.errorRate < b.errorRate
          \/ /\ a.errorRate = b.errorRate
             /\ \/ a.throughputRps > b.throughputRps
                \/ /\ a.throughputRps = b.throughputRps
                   /\ a.p95LatencyMs <= b.p95LatencyMs

\* C19 as stated: every reordering of the input list gives each target the
\* rank it has in the ranking of the list itself.
C19_RankIndependentOfInputOrder ==
    (call.phase = "returned" /\ call.fn = "buildThroughputRanking") =>
        \A reordered \in Reorderings(call.input) :
            \A k \in 1..Len(call.input) :
                RankOf(buildThroughputRanking(reordered), call.input[k].name)
                    = RankOf(call.result, call.input[k].name)

\* C20: the ranking has one item per input result, carrying that result's
\* name and values; the ranks are 1..n in output order; an item comes before
\* another only if it has the higher successThroughputRps, or the same and
\* the lower errorRate, or both the same and the higher throughputRps, or all
\* three the same and a p95 that is not higher; the caller's list is as it
\* was at the call.
C20_RankingOrderedByKeys ==
    (call.phase = "returned" /\ call.fn = "buildThroughputRanking") =>
        LET x == call.input
            r == call.result
        IN /\ Len(r) = Len(x)
           /\ \A k \in 1..Len(r) : r[k].rank = k
           /\ \A k \in 1..Len(x) :
                 \E i \in 1..Len(r) :
                     /\ r[i].name = x[k].name
                     /\ r[i].successThroughputRps = x[k].successThroughputRps
                     /\ r[i].errorRate = x[k].errorRate
                     /\ r[i].throughputRps = x[k].throughputRps
                     /\ r[i].p95LatencyMs = x[k].p95
           /\ \A i, j \in 1..Len(r) : i < j => NoLaterByKeys(r[i], r[j])
           /\ call.results = x

C20_Witness ==
    /\ call.phase = "returned"
    /\ call.fn = "buildThroughputRanking"
    /\ Len(call.input) = 3
    /\ call.input[1].successThroughputRps = 10
    /\ call.input[2].errorRate = 50
    /\ call.input[3].p95 = 9
    /\ call.result[1].name = call.input[3].name
    /\ call.result[2].name = call.input[2].name
    /\ call.result[3].name = call.input[1].name
    /\ call.results = call.input

\* ------------------------------------------------- the sample statistics
MaxStatSamples == 4
\* opsPerSecond samples; every mean, median and variance of up to six of
\* these values is a whole number
StatValues == {60, 120, 180}
StatSampleLists == UNION {[1..n -> StatValues] : n \in 1..MaxStatSamples}
\* samples whose mean is 0
ZeroSamples == <<0, 0>>

calculateMedian_UpperMiddle(values) ==
    LET sorted == sortAscending(values)
    IN sorted[(Len(sorted) \div 2) + 1]

calculateMedian(values) ==
    LET sorted == sortAscending(values)
        middle == Len(sorted) \div 2
    IN IF Len(sorted) % 2 = 0
       THEN (sorted[middle] + sorted[middle + 1]) \div 2
       ELSE sorted[middle + 1]

calculateTrimmedMean_KeepsMaximum(values) ==
    IF Len(values) <= 2
    THEN SumSeq(values) \div Len(values)
    ELSE LET sorted == sortAscending(values)
             trimmed == SubSeq(sorted, 2, Len(sorted))
         IN SumSeq(trimmed) \div Len(trimmed)

calculateTrimmedMean(values) ==
    IF Len(values) <= 2
    THEN SumSeq(values) \div Len(values)
    ELSE LET sorted == sortAscending(values)
             trimmed == SubSeq(sorted, 2, Len(sorted) - 1)
         IN SumSeq(trimmed) \div Len(trimmed)

\* Math.min(...values) and Math.max(...values)
MathMin(values) == CHOOSE v \in {values[k] : k \in 1..Len(values)} :
                       \A k \in 1..Len(values) : v <= values[k]
MathMax(values) == CHOOSE v \in {values[k] : k \in 1..Len(values)} :
                       \A k \in 1..Len(values) : v >= values[k]

\* Binary floating point with MantissaBits bits of precision and rounding to
\* nearest, ties to even (a double has 53): a number is 0 or
\* sign * mantissa * 2^exponent with 2^(MantissaBits-1) <= mantissa <
\* 2^MantissaBits. Every sample of StatValues is such a number.
MantissaBits == 6
MaxExponent == 12
RECURSIVE Pow2(_)
Pow2(k) == IF k = 0 THEN 1 ELSE 2 * Pow2(k - 1)
FloatZero == [sign |-> 1, mantissa |-> 0, exponent |-> 0]
Abs(n) == IF n < 0 THEN 0 - n ELSE n

\* the float nearest to num / den, for den > 0
RoundToFloat(num, den) ==
    IF num = 0 THEN FloatZero
    ELSE LET a == Abs(num)
             low == Pow2(MantissaBits - 1)
             high == Pow2(MantissaBits)
             exponent ==
                 IF a >= low * den
                 THEN CHOOSE e \in 0..MaxExponent :
                          low * den * Pow2(e) <= a /\ a < high * den * Pow2(e)
                 ELSE CHOOSE e \in (0 - MaxExponent)..(0 - 1) :
                          low * den <= a * Pow2(0 - e) /\ a * Pow2(0 - e) < high * den
             scaledNum == IF exponent >= 0 THEN a ELSE a * Pow2(0 - exponent)
             scaledDen == IF exponent >= 0 THEN den * Pow2(exponent) ELSE den
             quotient == scaledNum \div scaledDen
             twice == 2 * (scaledNum % scaledDen)
             mantissa == IF twice > scaledDen \/ (twice = scaledDen /\ quotient % 2 = 1)
                         THEN quotient + 1 ELSE quotient
             sign == IF num < 0 THEN 0 - 1 ELSE 1
         IN IF mantissa = high
            THEN [sign |-> sign, mantissa |-> low, exponent |-> exponent + 1]
            ELSE [sign |-> sign, mantissa |-> mantissa, exponent |-> exponent]

\* the value of a float as num / den
NumOf(x) == IF x.exponent >= 0 THEN x.sign * x.mantissa * Pow2(x.exponent)
            ELSE x.sign * x.mantissa
DenOf(x) == IF x.exponent >= 0 THEN 1 ELSE Pow2(0 - x.exponent)

\* x + y, x - y, x * y and x / y of two numbers
FloatAdd(x, y) ==
    RoundToFloat(NumOf(x) * DenOf(y) + NumOf(y) * DenOf(x), DenOf(x) * DenOf(y))
FloatSub(x, y) ==
    RoundToFloat(NumOf(x) * DenOf(y) - NumOf(y) * DenOf(x), DenOf(x) * DenOf(y))
FloatMul(x, y) == RoundToFloat(NumOf(x) * NumOf(y), DenOf(x) * DenOf(y))
FloatDiv(x, y) ==
    IF NumOf(y) > 0 THEN RoundToFloat(NumOf(x) * DenOf(y), DenOf(x) * NumOf(y))
    ELSE RoundToFloat(0 - NumOf(x) * DenOf(y), DenOf(x) * (0 - NumOf(y)))

\* Math.sqrt of a number that is 0 or at least 1
MathSqrt(x) ==
    IF x.mantissa = 0 THEN FloatZero
    ELSE LET low == Pow2(MantissaBits - 1)
             high == Pow2(MantissaBits)
             \* m * 2^e <= sqrt(x), as m^2 * 2^(2e) * den <= num
             NotAbove(m, e) ==
                 IF e >= 0 THEN m * m * Pow2(2 * e) * DenOf(x) <= NumOf(x)
                 ELSE m * m * DenOf(x) <= NumOf(x) * Pow2(0 - 2 * e)
             exponent == CHOOSE e \in (1 - MantissaBits)..2 :
                             NotAbove(low, e) /\ ~NotAbove(high, e)
             floor == CHOOSE m \in low..(high - 1) :
                          NotAbove(m, exponent) /\ ~NotAbove(m + 1, exponent)
             \* (2m + 1) * 2^(e-1), the middle of m * 2^e and (m + 1) * 2^e
             middle == 2 * floor + 1
             BelowRoot ==
                 IF exponent >= 1
                 THEN middle * middle * Pow2(2 * exponent - 2) * DenOf(x) < NumOf(x)
                 ELSE middle * middle * DenOf(x) < NumOf(x) * Pow2(2 - 2 * exponent)
             AtRoot ==
                 IF exponent >= 1
                 THEN middle * middle * Pow2(2 * exponent - 2) * DenOf(x) = NumOf(x)
                 ELSE middle * middle * DenOf(x) = NumOf(x) * Pow2(2 - 2 * exponent)
             mantissa == IF BelowRoot \/ (AtRoot /\ floor % 2 = 1)
                         THEN floor + 1 ELSE floor
         IN IF mantissa = high
            THEN [sign |-> 1, mantissa |-> low, exponent |-> exponent + 1]
            ELSE [sign |-> 1, mantissa |-> mantissa, exponent |-> exponent]

\* values.reduce((sum, value) => sum + value, 0)
RECURSIVE FloatSum(_, _)
FloatSum(sum, values) ==
    IF values = <<>> THEN sum
    ELSE FloatSum(FloatAdd(sum, RoundToFloat(Head(values), 1)), Tail(values))
\* values.reduce((sum, value) => sum + (value - mean) ** 2, 0); the square
\* is taken as the product of the difference with itself
RECURSIVE FloatSumOfSquares(_, _, _)
FloatSumOfSquares(sum, values, mean) ==
    IF values = <<>> THEN sum
    ELSE LET delta == FloatSub(RoundToFloat(Head(values), 1), mean)
         IN FloatSumOfSquares(FloatAdd(sum, FloatMul(delta, delta)), Tail(values), mean)
FloatOf(n) == RoundToFloat(n, 1)

\* reliability-run.ts lines 285-299, in floating point
calculateCoefficientOfVariation(values) ==
    IF Len(values) <= 1 THEN FloatZero
    ELSE LET mean == FloatDiv(FloatSum(FloatZero, values), FloatOf(Len(values)))
             variance == FloatDiv(FloatSumOfSquares(FloatZero, values, mean),
                                  FloatOf(Len(values)))
         IN IF mean = FloatZero THEN FloatZero
            ELSE FloatDiv(MathSqrt(variance), mean)

\* the coefficientOfVariation of calculateStats (part_007 lines 593-608) in
\* floating point: the sums run over the sorted copy
coefficientOfVariation(values) ==
    LET sorted == sortAscending(values)
        rounds == Len(sorted)
        averageOpsPerSecond == FloatDiv(FloatSum(FloatZero, sorted), FloatOf(rounds))
        variance == FloatDiv(FloatSumOfSquares(FloatZero, sorted, averageOpsPerSecond),
                             FloatOf(rounds))
    IN IF averageOpsPerSecond = FloatZero THEN FloatZero
       ELSE FloatDiv(MathSqrt(variance), averageOpsPerSecond)

\* one bucket of samples summarized by the baseline runner's functions and
\* by calculateStats
InitStats ==
    /\ HttpIdle
    /\ req = IdleRequest
    /\ gate = IdleGate
    /\ pack = IdlePack
    /\ \E values \in StatSampleLists \cup {ZeroSamples} :
           call = [phase |-> "call", fn |-> "calculateStats", input |-> values,
                   result |-> Null]

CalculateStats ==
    /\ call.phase = "call"
    /\ call.fn = "calculateStats"
    /\ call' = [call EXCEPT
                  !.phase = "returned",
                  !.result = [stats |-> calculateStats(call.input),
                              median |-> calculateMedian(call.input),
                              trimmedMean |-> calculateTrimmedMean(call.input),
                              min |-> MathMin(call.input),
                              max |-> MathMax(call.input),
                              coefficientOfVariation |->
                                  calculateCoefficientOfVariation(call.input),
                              statsCoefficientOfVariation |->
                                  coefficientOfVariation(call.input)]]
    /\ UNCHANGED <<httpVars, req, gate, pack>>

SpecStats == InitStats /\ [][CalculateStats]_vars

\* C21: the trimmed mean of n <= 2 samples is their plain mean; of n > 2
\* samples it is the mean of the n - 2 samples left after taking away one
\* occurrence of the minimum and one of the maximum, so that further copies
\* of either stay in; calculateTrimmedMean and calculateStats both do so.
C21_TrimmedMeanDropsOneMinOneMax ==
    (call.phase = "returned" /\ call.fn = "calculateStats") =>
        LET n == Len(call.input)
            kept == SumSeq(call.input) - MathMin(call.input) - MathMax(call.input)
        IN \A trimmed \in {call.result.trimmedMean,
                           call.result.stats.trimmedMeanOpsPerSecond} :
               /\ n <= 2 => trimmed * n = SumSeq(call.input)
               /\ n > 2 => trimmed * (n - 2) = kept

C21_Witness ==
    /\ call.phase = "returned"
    /\ call.fn = "calculateStats"
    /\ call.input = <<180, 60, 180, 60>>
    /\ call.result.trimmedMean = 120
    /\ call.result.stats.trimmedMeanOpsPerSecond = 120

\* ------------------------------------------------------ runBaselineReport
CpuBenchmarks == <<"json-stringify-parse", "uint8array-copy", "text-encode-decode">>
FileIoTargets == {"file-io-workspace-disk", "file-io-dev-shm", "file-io-os-tmp"}
\* the order of localeCompare on the operation names
BaselineNameOrder ==
    <<"file-io-dev-shm", "file-io-os-tmp", "file-io-workspace-disk",
      "json-stringify-parse", "text-encode-decode", "uint8array-copy">>
\* /dev/shm exists but no directory can be made in it
DevShmUnusable == "dev-shm-unusable"
\* what goes wrong in one pass: nothing, the self-check of one operation,
\* /dev/shm refusing the directory, or the self-checks of both fallbacks
FaultSets ==
    {{}} \cup {{name} : name \in {CpuBenchmarks[k] : k \in 1..3} \cup FileIoTargets}
         \cup {{DevShmUnusable}, {"file-io-dev-shm", "file-io-os-tmp"}}
BaselineEnvs == [devShmExists : BOOLEAN, osTmpIsWorkspaceTmp : BOOLEAN]

\* One pass of the micro-benchmarks. faults are the operations whose runner
\* throws in this pass and ops the opsPerSecond the pass measures; failed
\* collects the operations whose self-check did throw.
runSingleRound(env, faults, ops) ==
    LET sample(name) == [name |-> name, opsPerSecond |-> ops]
        thrown(failed) ==
            [threw |-> TRUE, samples |-> <<>>, failed |-> failed, warned |-> FALSE]
        returned(samples, failed, warned) ==
            [threw |-> FALSE, samples |-> samples, failed |-> failed, warned |-> warned]
        cpu == [k \in 1..3 |-> sample(CpuBenchmarks[k])]
        withDisk == Append(cpu, sample("file-io-workspace-disk"))
        osTmp(failed, warned) ==
            IF env.osTmpIsWorkspaceTmp THEN returned(withDisk, failed, warned)
            ELSE IF "file-io-os-tmp" \in faults
                 THEN thrown(failed \cup {"file-io-os-tmp"})
                 ELSE returned(Append(withDisk, sample("file-io-os-tmp")), failed, warned)
    IN IF \E k \in 1..3 : CpuBenchmarks[k] \in faults
       THEN thrown({CpuBenchmarks[k] : k \in 1..3} \cap faults)
       ELSE IF "file-io-workspace-disk" \in faults
       THEN thrown({"file-io-workspace-disk"})
       ELSE IF env.devShmExists
       THEN IF faults \cap {"file-io-dev-shm", DevShmUnusable} # {}
            THEN osTmp(faults \cap {"file-io-dev-shm"}, TRUE)
            ELSE returned(Append(withDisk, sample("file-io-dev-shm")), {}, FALSE)
       ELSE osTmp({}, FALSE)

RECURSIVE FlattenRounds(_)
FlattenRounds(rounds) ==
    IF rounds = <<>> THEN <<>> ELSE Head(rounds) \o FlattenRounds(Tail(rounds))

\* the values of one bucket, in the order the rounds pushed them
BucketValues(measuredRounds, name) ==
    LET named == SelectSeq(FlattenRounds(measuredRounds), LAMBDA s : s.name = name)
    IN [k \in 1..Len(named) |-> named[k].opsPerSecond]

aggregateSampleProfiles(measuredRounds, options) ==
    LET flat == FlattenRounds(measuredRounds)
        names == SelectSeq(BaselineNameOrder,
                           LAMBDA name : \E k \in 1..Len(flat) : flat[k].name = name)
        profiles ==
            [k \in 1..Len(names) |->
                LET values == BucketValues(measuredRounds, names[k])
                IN [name |-> names[k],
                    warmupRounds |-> options.warmupRounds,
                    measuredRounds |-> options.measuredRounds,
                    measuredOpsPerSecond |-> values,
                    medianOpsPerSecond |-> calculateMedian(values),
                    trimmedMeanOpsPerSecond |-> calculateTrimmedMean(values),
                    minOpsPerSecond |-> MathMin(values),
                    maxOpsPerSecond |-> MathMax(values)]]
    IN [samples |-> [k \in 1..Len(profiles) |->
                        [name |-> profiles[k].name,
                         opsPerSecond |-> profiles[k].medianOpsPerSecond]],
        profiles |-> profiles]

BaselineOptions == [warmupRounds : 0..MaxWarmupRounds, measuredRounds : 1..MaxRounds]

InitBaseline ==
    /\ HttpIdle
    /\ req = IdleRequest
    /\ gate = IdleGate
    /\ pack = IdlePack
    /\ \E options \in BaselineOptions, env \in BaselineEnvs :
           call = [phase |-> IF options.warmupRounds > 0 THEN "warmup" ELSE "measured",
                   fn |-> "runBaselineReport", input |-> options, env |-> env,
                   round |-> 0, passes |-> <<>>, measuredRounds |-> <<>>,
                   result |-> Null]

\* one turn of the loop of lines 433-435: the pass's samples are not kept
RunWarmupRound_KeepsSamples ==
    /\ call.fn = "runBaselineReport"
    /\ call.phase = "warmup"
    /\ \E faults \in FaultSets, ops \in OpsValues :
          LET pass == runSingleRound(call.env, faults, ops)
              last == call.round + 1 >= call.input.warmupRounds
          IN call' = [call EXCEPT
                        !.phase = IF pass.threw THEN "threw"
                                  ELSE IF last THEN "measured" ELSE "warmup",
                        !.round = IF last THEN 0 ELSE call.round + 1,
                        !.measuredRounds = Append(@, pass.samples),
                        !.passes = Append(@, [kind |-> "warmup"] @@ pass)]
    /\ UNCHANGED <<httpVars, req, gate, pack>>

RunWarmupRound ==
    /\ call.fn = "runBaselineReport"
    /\ call.phase = "warmup"
    /\ \E faults \in FaultSets, ops \in OpsValues :
          LET pass == runSingleRound(call.env, faults, ops)
              last == call.round + 1 >= call.input.warmupRounds
          IN call' = [call EXCEPT
                        !.phase = IF pass.threw THEN "threw"
                                  ELSE IF last THEN "measured" ELSE "warmup",
                        !.round = IF last THEN 0 ELSE call.round + 1,
                        !.passes = Append(@, [kind |-> "warmup"] @@ pass)]
    /\ UNCHANGED <<httpVars, req, gate, pack>>

\* one call of the callback of Array.from, lines 436-438
RunMeasuredRound ==
    /\ call.fn = "runBaselineReport"
    /\ call.phase = "measured"
    /\ \E faults \in FaultSets, ops \in OpsValues :
          LET pass == runSingleRound(call.env, faults, ops)
              last == call.round + 1 >= call.input.measuredRounds
          IN call' = [call EXCEPT
                        !.phase = IF pass.threw THEN "threw"
                                  ELSE IF last THEN "aggregate" ELSE "measured",
                        !.round = call.round + 1,
                        !.measuredRounds =
                            IF pass.threw THEN @ ELSE Append(@, pass.samples),
                        !.passes = Append(@, [kind |-> "measured"] @@ pass)]
    /\ UNCHANGED <<httpVars, req, gate, pack>>

\* lines 439-457
ReturnBaselineReport ==
    /\ call.fn = "runBaselineReport"
    /\ call.phase = "aggregate"
    /\ LET aggregated == aggregateSampleProfiles(call.measuredRounds, call.input)
       IN call' = [call EXCEPT
                     !.phase = "returned",
                     !.result =
                         [samples |-> aggregated.samples,
                          profile |->
                              [mode |-> IF /\ call.input.warmupRounds = 0
                                           /\ call.input.measuredRounds = 1
                                        THEN "single-sample" ELSE "multi-round",
                               warmupRounds |-> call.input.warmupRounds,
                               measuredRounds |-> call.input.measuredRounds,
                               samples |-> aggregated.profiles]]]
    /\ UNCHANGED <<httpVars, req, gate, pack>>

NextBaseline == RunWarmupRound \/ RunMeasuredRound \/ ReturnBaselineReport
SpecBaseline == InitBaseline /\ [][NextBaseline]_vars

\* C22 as stated: a pass in which the self-check of an operation threw is a
\* pass that threw and gave no samples.
C22_SelfCheckFailureFailsTheRound ==
    (call.fn = "runBaselineReport") =>
        \A k \in 1..Len(call.passes) :
            call.passes[k].failed # {} =>
                /\ call.passes[k].threw
                /\ call.passes[k].samples = <<>>

\* the round loops of the baseline runner and of the pack command
SpecRounds == (InitPack \/ InitBaseline) /\ [][NextPack \/ NextBaseline]_vars

PassesOfKind(kind) == SelectSeq(call.passes, LAMBDA pass : pass.kind = kind)
\* the opsPerSecond the measured passes gave an operation, pass after pass
MeasuredValuesOf(name) ==
    LET flat == FlattenRounds([k \in 1..Len(PassesOfKind("measured")) |->
                                  PassesOfKind("measured")[k].samples])
        named == SelectSeq(flat, LAMBDA sample : sample.name = name)
    IN [k \in 1..Len(named) |-> named[k].opsPerSecond]
RanInEveryMeasuredPass(name) ==
    \A k \in 1..Len(PassesOfKind("measured")) :
        \E i \in 1..Len(PassesOfKind("measured")[k].samples) :
            PassesOfKind("measured")[k].samples[i].name = name

\* C23: the baseline runner makes warmupRounds warmup passes and then
\* measuredRounds measured passes; the values of a profile are the values the
\* measured passes gave the operation of that name, in pass order, and none
\* of a warmup pass; an operation every measured pass ran has measuredRounds
\* values. The pack command's buckets stay empty through its warmup rounds,
\* gain one value per metric in each measured round and hold options.rounds
\* values per metric after the last one.
C23_OnlyMeasuredRoundsAreBucketed ==
    /\ (call.fn = "runBaselineReport") =>
          /\ \A k \in 1..Len(call.passes) :
                call.passes[k].kind = "warmup" <=> k <= Len(PassesOfKind("warmup"))
          /\ Len(PassesOfKind("warmup")) <= call.input.warmupRounds
          /\ Len(PassesOfKind("measured")) <= call.input.measuredRounds
          /\ call.phase \in {"measured", "aggregate", "returned"} =>
                Len(PassesOfKind("warmup")) = call.input.warmupRounds
          /\ call.phase \in {"aggregate", "returned"} =>
                Len(PassesOfKind("measured")) = call.input.measuredRounds
          /\ call.phase = "returned" =>
                LET profiles == call.result.profile.samples
                IN /\ \A name \in {BaselineNameOrder[k] : k \in 1..Len(BaselineNameOrder)} :
                         (MeasuredValuesOf(name) # <<>>) <=>
                             \E k \in 1..Len(profiles) : profiles[k].name = name
                   /\ \A k \in 1..Len(profiles) :
                         /\ profiles[k].measuredOpsPerSecond
                                = MeasuredValuesOf(profiles[k].name)
                         /\ RanInEveryMeasuredPass(profiles[k].name) =>
                                Len(profiles[k].measuredOpsPerSecond)
                                    = call.input.measuredRounds
    /\ (pack.pc \in {"setup", "warmup"}) =>
          \A name \in MetricNames : pack.baselineBuckets[name] = <<>>
    /\ (pack.pc = "warmup") =>
          Cardinality(EventsOf("warmup round")) = pack.round - 1
    /\ (pack.pc = "measured") =>
          /\ Cardinality(EventsOf("warmup round")) = pack.options.warmupRounds
          /\ Cardinality(EventsOf("measured round")) = pack.round - 1
          /\ \A name \in MetricNames : Len(pack.baselineBuckets[name]) = pack.round - 1
    /\ (pack.pc \notin {"idle", "setup", "warmup", "measured", "failed"}) =>
          /\ Cardinality(EventsOf("warmup round")) = pack.options.warmupRounds
          /\ Cardinality(EventsOf("measured round")) = pack.options.rounds
          /\ \A name \in MetricNames :
                Len(pack.baselineBuckets[name]) = pack.options.rounds

C23_Witness ==
    /\ call.fn = "runBaselineReport"
    /\ call.phase = "returned"
    /\ call.input = [warmupRounds |-> 1, measuredRounds |-> 2]
    /\ call.passes[1].kind = "warmup"
    /\ call.passes[1].samples[1].opsPerSecond = 60
    /\ call.passes[2].samples[1].opsPerSecond = 120
    /\ call.passes[3].samples[1].opsPerSecond = 120
    /\ call.passes[2].warned
    /\ ~call.passes[3].warned
    /\ call.result.profile.samples[1].name = "file-io-dev-shm"
    /\ call.result.profile.samples[1].measuredOpsPerSecond = <<120>>
    /\ call.result.profile.samples[4].name = "json-stringify-parse"
    /\ call.result.profile.samples[4].measuredOpsPerSecond = <<120, 120>>

\* C24 as stated: when the run writes its baseline profile the comparison
\* has been loaded, and the file written is not the file the comparison was
\* loaded from, whatever --compare-path and --profile-out are.
C24_ComparisonFileIsNeverWritten ==
    (pack.pc # "idle" /\ pack.profileWrittenTo # NoPath) =>
        /\ pack.comparisonSource = maybeLoadComparisonSource(pack.options, pack.files)
        /\ pack.comparisonSource.mode = "profile" =>
              pack.profileWrittenTo # resolveComparisonPath(pack.options, pack.files)

\* ------------------------------------------------- the test artifact paths
\* A string is a sequence of tokens: white space, the separator, a name, or
\* the parent name. A path is the sequence of its components from the file
\* system root, each component a string.
MaxOverrideLen == 3
MaxSegments == 2
PathTokens == {" ", "/", "a", ".."}
\* process.env.MERISTEM_TEST_ARTIFACT_ROOT: undefined or a string
Unset == [set |-> FALSE, value |-> <<>>]
OverrideValues ==
    {Unset} \cup {[set |-> TRUE, value |-> value] :
                     value \in UNION {[1..n -> PathTokens] : n \in 0..MaxOverrideLen}}
SegmentLists == UNION {[1..n -> {<<"a">>, <<"..">>}] : n \in 0..MaxSegments}
WorkspaceRoots == {<<<<"repo">>, <<"workspace">>>>}
DEFAULT_TEST_ARTIFACT_ROOT == <<"meristem-test-output">>

\* String.prototype.trim
RECURSIVE trim(_)
trim(text) ==
    IF text = <<>> THEN <<>>
    ELSE IF Head(text) = " " THEN trim(Tail(text))
    ELSE IF text[Len(text)] = " " THEN trim(SubSeq(text, 1, Len(text) - 1))
    ELSE text

isAbsolute(path) == path # <<>> /\ Head(path) = "/"

\* the components between the separators, the empty ones left out
RECURSIVE SplitPath(_, _)
SplitPath(path, component) ==
    IF path = <<>> THEN (IF component = <<>> THEN <<>> ELSE <<component>>)
    ELSE IF Head(path) = "/"
         THEN (IF component = <<>> THEN <<>> ELSE <<component>>)
                  \o SplitPath(Tail(path), <<>>)
         ELSE SplitPath(Tail(path), Append(component, Head(path)))

\* path.normalize on an absolute path: a parent component takes away the
\* component before it, and nothing at the file system root
RECURSIVE NormalizeOnto(_, _)
NormalizeOnto(done, components) ==
    IF components = <<>> THEN done
    ELSE IF Head(components) = <<"..">>
         THEN NormalizeOnto(IF done = <<>> THEN <<>> ELSE SubSeq(done, 1, Len(done) - 1),
                            Tail(components))
         ELSE NormalizeOnto(Append(done, Head(components)), Tail(components))

\* path.resolve(base, path) for an absolute base
resolve(base, path) ==
    IF isAbsolute(path) THEN NormalizeOnto(<<>>, SplitPath(path, <<>>))
    ELSE NormalizeOnto(base, SplitPath(path, <<>>))

\* path.join(base, ...segments) for an absolute base
RECURSIVE join(_, _)
join(base, segments) ==
    IF segments = <<>> THEN base
    ELSE join(NormalizeOnto(base, SplitPath(Head(segments), <<>>)), Tail(segments))

normalizeOverridePath_NoTrim(workspaceRoot, rawOverride) ==
    IF rawOverride = <<>> THEN join(workspaceRoot, <<DEFAULT_TEST_ARTIFACT_ROOT>>)
    ELSE resolve(workspaceRoot, rawOverride)

normalizeOverridePath(workspaceRoot, rawOverride) ==
    LET trimmed == trim(rawOverride)
    IN IF trimmed = <<>> THEN join(workspaceRoot, <<DEFAULT_TEST_ARTIFACT_ROOT>>)
       ELSE resolve(workspaceRoot, trimmed)

\* the workspace root and the environment variable are the inputs
resolveTestArtifactRoot(workspaceRoot, override) ==
    IF override.set /\ override.value # <<>>
    THEN normalizeOverridePath(workspaceRoot, override.value)
    ELSE join(workspaceRoot, <<DEFAULT_TEST_ARTIFACT_ROOT>>)

resolveTestArtifactPath(workspaceRoot, override, segments) ==
    join(resolveTestArtifactRoot(workspaceRoot, override), segments)

InitArtifacts ==
    /\ HttpIdle
    /\ req = IdleRequest
    /\ gate = IdleGate
    /\ pack = IdlePack
    /\ \E workspaceRoot \in WorkspaceRoots, override \in OverrideValues,
          segments \in SegmentLists :
           call = [phase |-> "call", fn |-> "resolveTestArtifactPath",
                   input |-> [workspaceRoot |-> workspaceRoot, override |-> override,
                              segments |-> segments],
                   result |-> Null]

ResolveTestArtifactPath ==
    /\ call.phase = "call"
    /\ call.fn = "resolveTestArtifactPath"
    /\ call' = [call EXCEPT
                  !.phase = "returned",
                  !.result =
                      [root |-> resolveTestArtifactRoot(call.input.workspaceRoot,
                                                        call.input.override),
                       path |-> resolveTestArtifactPath(call.input.workspaceRoot,
                                                        call.input.override,
                                                        call.input.segments)]]
    /\ UNCHANGED <<httpVars, req, gate, pack>>

SpecArtifacts == InitArtifacts /\ [][ResolveTestArtifactPath]_vars

IsUnder(path, root) == Len(path) >= Len(root) /\ SubSeq(path, 1, Len(root)) = root
\* the override with the white space at its ends taken off, <<>> when unset
TrimmedOverride == trim(call.input.override.value)
ComponentsOf(path) == SplitPath(path, <<>>)
HasParentComponent(components) ==
    \E k \in 1..Len(components) : components[k] = <<"..">>

\* C25 as stated: the default root for an unset, empty or blank override, a
\* relative override resolved against the workspace root, an absolute
\* override taken from the file system root, and every artifact path under
\* the root.
C25_ArtifactPathAlwaysUnderRoot ==
    (call.phase = "returned" /\ call.fn = "resolveTestArtifactPath") =>
        LET workspaceRoot == call.input.workspaceRoot
            root == call.result.root
        IN /\ TrimmedOverride = <<>> =>
                 root = Append(workspaceRoot, DEFAULT_TEST_ARTIFACT_ROOT)
           /\ (TrimmedOverride # <<>> /\ ~isAbsolute(TrimmedOverride)) =>
                 root = resolve(workspaceRoot, TrimmedOverride)
           /\ isAbsolute(TrimmedOverride) =>
                 root = NormalizeOnto(<<>>, ComponentsOf(TrimmedOverride))
           /\ IsUnder(call.result.path, root)

\* C25: the root is <workspaceRoot>/meristem-test-output for an unset, empty
\* or blank override; a relative override is resolved against the workspace
\* root, which it stays under unless it has a parent component; an absolute
\* override is taken from the file system root, not from the workspace
\* root, and is returned component for component unless it has a parent
\* component; the artifact path is the root followed by the segments, and so
\* under the root, when no segment is the parent component.
C25_ArtifactPathUnderRootWithoutParentSegments ==
    (call.phase = "returned" /\ call.fn = "resolveTestArtifactPath") =>
        LET workspaceRoot == call.input.workspaceRoot
            root == call.result.root
            components == ComponentsOf(TrimmedOverride)
        IN /\ TrimmedOverride = <<>> =>
                 root = Append(workspaceRoot, DEFAULT_TEST_ARTIFACT_ROOT)
           /\ (TrimmedOverride # <<>> /\ ~isAbsolute(TrimmedOverride)) =>
                 /\ root = NormalizeOnto(workspaceRoot, components)
                 /\ ~HasParentComponent(components) => root = workspaceRoot \o components
           /\ isAbsolute(TrimmedOverride) =>
                 /\ root = NormalizeOnto(<<>>, components)
                 /\ ~HasParentComponent(components) => root = components
           /\ ~HasParentComponent(call.input.segments) =>
                 call.result.path = root \o call.input.segments

C25_Witness ==
    /\ call.phase = "returned"
    /\ call.fn = "resolveTestArtifactPath"
    /\ call.input.override = [set |-> TRUE, value |-> <<" ", "/", "a">>]
    /\ call.input.segments = <<<<"a">>, <<"a">>>>
    /\ call.result.root = <<<<"a">>>>
    /\ call.result.path = <<<<"a">>, <<"a">>, <<"a">>>>

\* the sample at a 0-based index of the ascending order: at most index
\* samples are below it and more than index are not above it
IsSampleAtRank(samples, value, index) ==
    /\ \E k \in 1..Len(samples) : samples[k] = value
    /\ Cardinality({k \in 1..Len(samples) : samples[k] < value}) <= index
    /\ Cardinality({k \in 1..Len(samples) : samples[k] <= value}) > index
\* min(n - 1, max(0, ceil(n * percent / 100) - 1))
NearestRankIndex(n, percent) ==
    LET ceil == CHOOSE c \in 0..n : 100 * c >= n * percent /\ 100 * (c - 1) < n * percent
    IN Min2(n - 1, Max2(0, ceil - 1))

\* C26: p50, p95 and p99 of a non-empty list are the samples at index
\* min(n - 1, max(0, ceil(n * p) - 1)) of the ascending order, for p = 0.5,
\* 0.95 and 0.99: each is one of the samples, never a value between two.
C26_PercentilesAreNearestRankSamples ==
    (call.phase = "returned" /\ call.fn = "computeLatencyStats" /\ call.input # <<>>) =>
        LET n == Len(call.input)
        IN /\ IsSampleAtRank(call.input, call.result.p50, NearestRankIndex(n, 50))
           /\ IsSampleAtRank(call.input, call.result.p95, NearestRankIndex(n, 95))
           /\ IsSampleAtRank(call.input, call.result.p99, NearestRankIndex(n, 99))

C26_Witness ==
    /\ call.phase = "returned"
    /\ call.fn = "computeLatencyStats"
    /\ call.input = <<9, 1, 4>>
    /\ call.result.p50 = 4
    /\ call.result.p95 = 9
    /\ call.result.p99 = 9

\* ---------------------------------------------------- runFullE2EWithCleanup
Processes == {"core", "client"}
\* the processes of an earlier run, whose pids its runtime.json records
EarlierProcesses == {"earlier core", "earlier client"}
\* runtime.json: absent, or the state with the pids it records
NoRuntimeFile == [exists |-> FALSE, pids |-> {}]
defaultRuntimeState == [exists |-> TRUE, pids |-> {}]
EarlierRuntimeState == [exists |-> TRUE, pids |-> EarlierProcesses]

InitE2E ==
    /\ HttpIdle
    /\ req = IdleRequest
    /\ gate = IdleGate
    /\ pack = IdlePack
    /\ \E runtime \in {NoRuntimeFile, defaultRuntimeState, EarlierRuntimeState} :
       \E alive \in SUBSET runtime.pids :
           call = [phase |-> "preflight", fn |-> "runFullE2EWithCleanup",
                   input |-> Null, result |-> Null, runtime |-> runtime,
                   alive |-> alive, started |-> {}, signalled |-> {},
                   steps |-> <<>>, failed |-> FALSE, error |-> NoError,
                   cleanups |-> 0]

\* a step of fullE2E throws: the finally block runs next
E2EThrows(message) ==
    call' = [call EXCEPT !.phase = "cleanup", !.failed = TRUE, !.error = message]
InE2E(phase) == call.fn = "runFullE2EWithCleanup" /\ call.phase = phase

\* preflight.ts lines 20-41, called at assert.ts line 329
RunPreflight ==
    /\ InE2E("preflight")
    /\ \/ E2EThrows("Missing required command")
       \/ call' = [call EXCEPT !.phase = "run", !.runtime = defaultRuntimeState,
                               !.steps = Append(@, "preflight")]
    /\ UNCHANGED <<httpVars, req, gate, pack>>

\* run.ts lines 95-103: preflight again, the shared build, compose up, the
\* wait for the NATS monitor
RunE2ESetUp ==
    /\ InE2E("run")
    /\ \/ \E message \in {"Missing required command", "[shared build] failed",
                           "docker compose up failed", "Timeout waiting for nats monitor"} :
             E2EThrows(message)
       \/ call' = [call EXCEPT !.phase = "startCore", !.runtime = defaultRuntimeState]
    /\ UNCHANGED <<httpVars, req, gate, pack>>

startBackgroundProcess(process, next) ==
    \/ E2EThrows("Failed to start process")
    \/ call' = [call EXCEPT !.phase = next,
                            !.alive = @ \cup {process},
                            !.started = @ \cup {process}]

\* run.ts lines 105-113
StartCore ==
    /\ InE2E("startCore")
    /\ startBackgroundProcess("core", "coreHealth")
    /\ UNCHANGED <<httpVars, req, gate, pack>>

\* run.ts line 115: the wait returns or times out
WaitForCoreHealth ==
    /\ InE2E("coreHealth")
    /\ \/ E2EThrows("Timeout waiting for core health")
       \/ call' = [call EXCEPT !.phase = "startClient"]
    /\ UNCHANGED <<httpVars, req, gate, pack>>

\* run.ts lines 117-124
StartClient ==
    /\ InE2E("startClient")
    /\ startBackgroundProcess("client", "clientJoin")
    /\ UNCHANGED <<httpVars, req, gate, pack>>

\* run.ts line 126
WaitForClientJoinSignal ==
    /\ InE2E("clientJoin")
    /\ \/ E2EThrows("Timeout waiting for client join success")
       \/ call' = [call EXCEPT !.phase = "writeState"]
    /\ UNCHANGED <<httpVars, req, gate, pack>>

\* run.ts lines 128-134
WriteRuntimePids ==
    /\ InE2E("writeState")
    /\ call' = [call EXCEPT !.phase = "assert",
                            !.runtime = [exists |-> TRUE, pids |-> Processes],
                            !.steps = Append(@, "run")]
    /\ UNCHANGED <<httpVars, req, gate, pack>>

\* assert.ts line 331
AssertE2E ==
    /\ InE2E("assert")
    /\ \/ E2EThrows("assertion failed")
       \/ call' = [call EXCEPT !.phase = "pass", !.steps = Append(@, "assert")]
    /\ UNCHANGED <<httpVars, req, gate, pack>>

\* assert.ts line 342
PrintPass ==
    /\ InE2E("pass")
    /\ call' = [call EXCEPT !.phase = "cleanup", !.steps = Append(@, "[e2e] pass")]
    /\ UNCHANGED <<httpVars, req, gate, pack>>

\* cleanup.ts lines 10-28: stopProcess signals a recorded pid that is alive;
\* compose down may fail
cleanupE2E ==
    /\ InE2E("cleanup")
    /\ \E composeDownFails \in BOOLEAN :
          call' = [call EXCEPT
                     !.phase = IF composeDownFails \/ call.failed
                               THEN "threw" ELSE "returned",
                     !.error = IF composeDownFails THEN "docker compose down failed"
                               ELSE @,
                     !.signalled = @ \cup (call.runtime.pids \cap call.alive),
                     !.cleanups = @ + 1,
                     !.steps = Append(@, "cleanup")]
    /\ UNCHANGED <<httpVars, req, gate, pack>>

\* a started process exits by itself
ProcessExits ==
    /\ call.fn = "runFullE2EWithCleanup"
    /\ call.phase \notin {"returned", "threw"}
    /\ \E process \in call.alive : call' = [call EXCEPT !.alive = @ \ {process}]
    /\ UNCHANGED <<httpVars, req, gate, pack>>

NextE2E ==
    \/ RunPreflight
    \/ RunE2ESetUp
    \/ StartCore
    \/ WaitForCoreHealth
    \/ StartClient
    \/ WaitForClientJoinSignal
    \/ WriteRuntimePids
    \/ AssertE2E
    \/ PrintPass
    \/ cleanupE2E
    \/ ProcessExits

SpecE2E == InitE2E /\ [][NextE2E]_vars

IsPrefixOf(part, whole) ==
    Len(part) <= Len(whole) /\ SubSeq(whole, 1, Len(part)) = part
E2EOver == call.phase \in {"returned", "threw"}

\* the order of the steps, the pass marker and the single cleanup
E2EStepsInOrder ==
    (call.fn = "runFullE2EWithCleanup") =>
        /\ \E n \in 0..4 :
              \/ call.steps = SubSeq(<<"preflight", "run", "assert", "[e2e] pass">>, 1, n)
              \/ call.steps = Append(SubSeq(<<"preflight", "run", "assert", "[e2e] pass">>,
                                            1, n), "cleanup")
        /\ (\E k \in 1..Len(call.steps) : call.steps[k] = "[e2e] pass") => ~call.failed
        /\ call.cleanups = (IF E2EOver THEN 1 ELSE 0)
        /\ E2EOver => call.steps[Len(call.steps)] = "cleanup"

\* C27 as stated: preflight, run and assert in order, the pass marker only
\* after all three, one cleanup at the end whatever happened, and after it
\* every process the run started that is still running has been sent the
\* stop signal.
C27_CleanupStopsEveryStartedProcess ==
    /\ E2EStepsInOrder
    /\ (call.fn = "runFullE2EWithCleanup" /\ E2EOver) =>
          (call.started \cap call.alive) \subseteq call.signalled

\* --------------------------------------------- the hwid of a join request
HexDigits == <<"0", "1", "2", "3", "4", "5", "6", "7",
               "8", "9", "a", "b", "c", "d", "e", "f">>
\* Number.prototype.toString(16) of a positive integer
RECURSIVE toHexString(_)
toHexString(n) ==
    IF n < 16 THEN <<HexDigits[n + 1]>>
    ELSE Append(toHexString(n \div 16), HexDigits[(n % 16) + 1])
padStart(text, length, fill) ==
    [k \in 1..Max2(0, length - Len(text)) |-> fill] \o text

buildUniqueJoinHwid(requestIndex) ==
    LET suffix == padStart(toHexString(requestIndex + 1), 16, "0")
    IN [k \in 1..48 |-> "b"] \o suffix

\* the request indices the fetcher was called with, in warmup and in the
\* measured run
WarmupIndicesSent == {i \in IndexRange : warmupFetched[i] > 0}
MeasuredIndicesSent == {i \in IndexRange : fetched[i] > 0}

\* C28 as stated: with the body factory of join mode unique-hwid no two
\* requests of one run of runHttpBenchmarkTarget, warmup or measured, carry
\* the same hwid.
C28_EveryJoinRequestHasItsOwnHwid ==
    /\ \A i \in IndexRange : warmupFetched[i] <= 1 /\ fetched[i] <= 1
    /\ \A i, j \in WarmupIndicesSent \cup MeasuredIndicesSent :
          i # j => buildUniqueJoinHwid(i) # buildUniqueJoinHwid(j)
    /\ \A i \in WarmupIndicesSent : \A j \in MeasuredIndicesSent :
          buildUniqueJoinHwid(i) # buildUniqueJoinHwid(j)

\* the events of the log that write a file into the out directory
ArtifactEvents ==
    {"write run-config", "warmup round", "measured round", "write baseline profile",
     "http matrix", "write reliability log", "write summary json", "write summary md"}

\* C29 as stated: the archive of the out directory is made after every file
\* the run writes into it, the two summaries included.
C29_ArchiveMadeAfterEveryArtifact ==
    (pack.pc # "idle") =>
        \A archived \in EventsOf("archive") :
            \A k \in 1..Len(pack.log) :
                pack.log[k] \in ArtifactEvents => k < archived

\* the statistics the two implementations give a list of samples
BaselineStatistics(values) ==
    [median |-> calculateMedian(values),
     trimmedMean |-> calculateTrimmedMean(values),
     min |-> MathMin(values),
     max |-> MathMax(values)]
PackStatistics(values) ==
    [median |-> calculateStats(values).medianOpsPerSecond,
     trimmedMean |-> calculateStats(values).trimmedMeanOpsPerSecond,
     min |-> calculateStats(values).minOpsPerSecond,
     max |-> calculateStats(values).maxOpsPerSecond]
StatsReturned == call.phase = "returned" /\ call.fn = "calculateStats"

====
